---- MODULE Spec2Model ----
(***************************************************************************)
(* State-machine model of the text redaction system:                      *)
(*   core/redaction_engine.py   RedactionEngine (set_sensitivity,         *)
(*                              detect_entities, redact_text)             *)
(*   core/semantic_redaction.py EntityTracker, SemanticRedactionEngine    *)
(*   core/presidio_engine.py    PresidioRedactionEngine.redact_text       *)
(*   core/rule_manager.py       sensitivity mapping                       *)
(*   storage/database.py        redaction_logs / audit_log tables         *)
(*                                                                         *)
(* A text is a sequence of one-character strings.  A replacement is a     *)
(* sequence of tokens ("[", a category, ":", a type, "]", or a generated  *)
(* pseudonym), so that a redacted text is again a sequence of strings.    *)
(* Spans are Python offsets: <<start, end>>, 0-based and half-open.       *)
(***************************************************************************)
EXTENDS Integers, Sequences, FiniteSets, TLC

\* ---------------------------------------------------------------- bounds
\* Longest input text of a redact_text call.
TextLen == 3
\* Most rule matches (re.finditer results) handled in one redact_text call.
MaxMatches == 2
\* Most entities the NLP model reports for one text.
MaxEntities == 1
\* Most get_replacement calls of one tracker session (SpecSession).
MaxCalls == 4
\* Most add_custom_rule / remove_custom_rule calls on one database (SpecRules).
MaxRuleOps == 3
\* Most results a detection backend reports for one text (SpecDetect).
MaxReported == 2
\* Most redact_text calls in a row on one engine (SpecAgain).
MaxRedactCalls == 2
\* Most pieces (plain characters, markers) of a text that holds markers
\* (SpecMarked).
MaxPieces == 2
MaxPathLen == 3
ResolveLen == 4
MaxOffers == 3
ContextTextLen == 3
MaxContextEntities == 2
\* The repetition bounds of the API_KEY pattern (rule_manager.py line 161).
ApiKeyMin == 10
ApiKeyMax == 40
\* Longest input text of a PresidioRedactionEngine.redact_text call.
PresidioTextLen == 5
\* presidio_engine.MAX_TEXT_SIZE is 100000 in the source; the model scales
\* it down so that the chunked path is reached with short texts.
MAX_TEXT_SIZE == 2

\* ------------------------------------------------------------ plain data
Alphabet == {"a", " "}
None == "None"

\* All sequences over S of length 0..n.
RECURSIVE SeqsUpTo(_, _)
SeqsUpTo(S, n) ==
    IF n = 0 THEN {<<>>}
    ELSE LET shorter == SeqsUpTo(S, n - 1)
         IN  shorter \cup {Append(s, x) : s \in {t \in shorter : Len(t) = n - 1}, x \in S}

Texts == SeqsUpTo(Alphabet, TextLen)

\* text[s:e]
Slice(t, s, e) == SubSeq(t, s + 1, e)

\* Non-empty spans of a text of length n.
SpansOf(n) == {<<s, e>> : s \in 0..n, e \in 0..n} \cap {sp \in (0..n) \X (0..n) : sp[1] < sp[2]}

SpanLen(sp) == sp[2] - sp[1]

\* str.isspace(): non-empty and whitespace only.
IsSpace(s) == Len(s) > 0 /\ \A i \in 1..Len(s) : s[i] = " "

\* \w of the regex module, on the tokens of the model.
IsWordTok(tok) == tok \notin {" ", "[", "]", ":", "-", "\n"}

\* ------------------------------------------------------- rule catalogue
\* A mapping whose "medium" level leaves out a category that "low" has.
SensitivityMappingMediumWithoutCredentials ==
    [low    |-> <<"PII", "CREDENTIALS">>,
     medium |-> <<"PII", "PHI", "FINANCIAL">>,
     high   |-> <<"PII", "PHI", "CREDENTIALS", "FINANCIAL", "LOCATIONS">>]

\* RuleManager._sensitivity_mapping
SensitivityMapping ==
    [low    |-> <<"PII", "CREDENTIALS">>,
     medium |-> <<"PII", "PHI", "CREDENTIALS", "FINANCIAL">>,
     high   |-> <<"PII", "PHI", "CREDENTIALS", "FINANCIAL", "LOCATIONS">>]

SensitivityLevels == {"low", "medium", "high"}

\* Arguments a caller may hand to set_sensitivity.
LevelArgs == SensitivityLevels \cup {"extreme", "invalid"}

\* get_rules_for_category: the rules of the modelled catalogue, in dict order.
\* "SSN_HYPHENATED" and "CREDIT_CARD_16" are preset rules; "ID\\q" is a custom
\* rule (rule names are free text chosen by the user).
RulesFor(category) ==
    CASE category = "PII"       -> <<"SSN_HYPHENATED", "ID\\q">>
      [] category = "FINANCIAL" -> <<"CREDIT_CARD_16">>
      [] OTHER                  -> <<>>

\* RedactionEngine.ENTITY_TYPE_MAPPING (spaCy label -> category); labels
\* outside the table have no category.
EntityLabels == {"PERSON", "MONEY", "LANGUAGE"}
ENTITY_TYPE_MAPPING(label) ==
    CASE label = "PERSON" -> "PII"
      [] label = "MONEY"  -> "FINANCIAL"
      [] OTHER            -> None

\* Confidence scores in percent; ner_confidence_threshold is 0.85.
Scores == {80, 90}
NerConfidenceThreshold == 85

\* ---------------------------------------------------------- EntityTracker
\* Word pools of the generators (the source's lists, cut to a few entries).
FirstNames == {"Alex"}
LastNames == {"Smith", "Johnson"}
CityNames == {"Westfield"}
States == {"North Region"}
Addresses == {"1 Main St, Westfield"}
SimpleOrgs == {"Solutions Inc."}
ComplexOrgs == {"Global Solutions Inc."}
\* random.randint(1, 999) and random.choices(string.digits, k=8), cut down.
RandomSuffixes == {"1", "2"}
AccountNumbers == {"00000000", "12345678"}

PersonName(f, l) == <<f, " ", l>>

SeqRange(s) == {s[i] : i \in 1..Len(s)}

\* `kw in entity_text`, on tokens.
Has(entity_text, kws) == \E i \in 1..Len(entity_text) : entity_text[i] \in kws

\* _generate_person_name: the names random.choice may return.
GeneratePersonName(generated) ==
    LET unused == {PersonName(f, l) : f \in FirstNames, l \in LastNames} \ SeqRange(generated.PERSON)
    IN  IF unused # {} THEN unused
        ELSE {PersonName(f, l) \o <<"-", n>> : f \in FirstNames, l \in LastNames, n \in RandomSuffixes}

\* _generate_location_name
GenerateLocationName(generated) ==
    LET drawn == {<<x>> : x \in Addresses \cup CityNames \cup States}
    IN  UNION {IF loc \in SeqRange(generated.LOCATION)
               THEN {loc \o <<"-", n>> : n \in RandomSuffixes}
               ELSE {loc} : loc \in drawn}

\* _generate_organization_name
GenerateOrganizationName(generated) ==
    LET drawn == {<<x>> : x \in SimpleOrgs \cup ComplexOrgs}
    IN  UNION {IF org \in SeqRange(generated.ORGANIZATION)
               THEN {org \o <<"-", n>> : n \in RandomSuffixes}
               ELSE {org} : org \in drawn}

\* _generate_replacement: the set of [replacement, pool] it may produce; pool
\* names the generated_names list the value is appended to (None: no list).
GenerateReplacement(category, entity_text, entity_type, generated) ==
    IF category = "PII" /\ entity_type = "PERSON"
      THEN {[replacement |-> r, pool |-> "PERSON"] : r \in GeneratePersonName(generated)}
    ELSE IF category = "LOCATIONS" \/ entity_type \in {"GPE", "LOC", "FAC"}
      THEN {[replacement |-> r, pool |-> "LOCATION"] : r \in GenerateLocationName(generated)}
    ELSE IF category = "PII" /\ entity_type = "ORG"
      THEN {[replacement |-> r, pool |-> "ORGANIZATION"] : r \in GenerateOrganizationName(generated)}
    ELSE IF category = "FINANCIAL" /\ Has(entity_text, {"CREDIT_CARD"})
      THEN {[replacement |-> <<"XXXX-XXXX-XXXX-XXXX">>, pool |-> None]}
    ELSE IF category = "FINANCIAL" /\ Has(entity_text, {"account", "acct"})
      THEN {[replacement |-> <<"ACCT-", n>>, pool |-> None] : n \in AccountNumbers}
    ELSE IF category = "PII" /\ Has(entity_text, {"ssn", "social security"})
      THEN {[replacement |-> <<"SSN-REDACTED">>, pool |-> None]}
    ELSE IF category = "PHI" /\ Has(entity_text, {"mrn", "medical record"})
      THEN {[replacement |-> <<"MRN-REDACTED">>, pool |-> None]}
    ELSE IF category = "PII" /\ Has(entity_text, {"email", "@"})
      THEN {[replacement |-> <<"EMAIL-REDACTED">>, pool |-> None]}
    ELSE IF category = "PII" /\ Has(entity_text, {"phone", "tel", "mobile"})
      THEN {[replacement |-> <<"PHONE-REDACTED">>, pool |-> None]}
    ELSE {[replacement |-> <<"[", category, "-", "REDACTED", "]">>, pool |-> None]}

NoGenerated == [PERSON |-> <<>>, LOCATION |-> <<>>, ORGANIZATION |-> <<>>]

\* entity_map is a function on the <<category, entity_text>> pairs stored so far.
Stored(map, category, entity_text) == <<category, entity_text>> \in DOMAIN map

MapPut(map, key, val) == [k \in DOMAIN map \cup {key} |-> IF k = key THEN val ELSE map[k]]

\* A get_replacement that generates anew on every call (the stored-value
\* lookup of lines 49-51 left out).
GetReplacementRegenerating(tracker, category, entity_text, entity_type) ==
    {[replacement |-> g.replacement,
      tracker |-> [entity_map |-> MapPut(tracker.entity_map, <<category, entity_text>>, g.replacement),
                   generated_names |->
                       IF g.pool = None THEN tracker.generated_names
                       ELSE [tracker.generated_names EXCEPT ![g.pool] = Append(@, g.replacement)]]]
       : g \in GenerateReplacement(category, entity_text, entity_type, tracker.generated_names)}

\* EntityTracker.get_replacement on the tracker state [entity_map,
\* generated_names]: the set of [replacement, tracker] outcomes.
GetReplacement(tracker, category, entity_text, entity_type) ==
    IF Stored(tracker.entity_map, category, entity_text)
    THEN {[replacement |-> tracker.entity_map[<<category, entity_text>>], tracker |-> tracker]}
    ELSE {[replacement |-> g.replacement,
           tracker |-> [entity_map |-> MapPut(tracker.entity_map, <<category, entity_text>>, g.replacement),
                        generated_names |->
                            IF g.pool = None THEN tracker.generated_names
                            ELSE [tracker.generated_names EXCEPT ![g.pool] = Append(@, g.replacement)]]]
            : g \in GenerateReplacement(category, entity_text, entity_type, tracker.generated_names)}

FreshTracker == [entity_map |-> <<>>, generated_names |-> NoGenerated]

\* ------------------------------------------- RedactionEngine.redact_text
\* Line 385: the overlap test of the rule pass (inclusive at both ends).
Overlap1(match_span, d) == match_span[1] <= d[2] /\ match_span[2] >= d[1]

\* Line 448: the overlap test of the substitution pass (strict).
Overlap2(span, existing) == span[1] < existing[2] /\ span[2] > existing[1]

\* A loop that lets only a strictly longer accepted span stop the match
\* ("<" in the place of "<=" at line 387).
Blockers1LongerOnly(detected, match_span) ==
    {d \in detected : Overlap1(match_span, d) /\ SpanLen(match_span) < SpanLen(d)}
\* Lines 383-392 for one match: the accepted spans a longer-or-equal one of
\* which stops the loop (blockers), and the shorter ones the loop marks.
Blockers1(detected, match_span) ==
    {d \in detected : Overlap1(match_span, d) /\ SpanLen(match_span) <= SpanLen(d)}
Shorter1(detected, match_span) ==
    {d \in detected : Overlap1(match_span, d) /\ SpanLen(match_span) > SpanLen(d)}

\* A rule pass that accepts a longer match without removing the shorter
\* spans it overlaps (lines 392-396 left out).
ResolveRuleMatchKeepingShorter(detected, match_span) ==
    IF Blockers1(detected, match_span) = {}
    THEN {[accepted |-> TRUE, detected |-> detected \cup {match_span}]}
    ELSE {[accepted |-> FALSE, detected |-> detected]}

\* Lines 379-400 for one match: the possible [accepted, detected] outcomes.
\* detected_spans is a Python set, iterated in an order the program does not
\* fix; the spans marked before the loop breaks are any subset of the shorter
\* overlapping ones, and they are removed whether or not the match is accepted.
ResolveRuleMatch(detected, match_span) ==
    IF Blockers1(detected, match_span) = {}
    THEN {[accepted |-> TRUE,
           detected |-> (detected \ Shorter1(detected, match_span)) \cup {match_span}]}
    ELSE {[accepted |-> FALSE, detected |-> detected \ R]
            : R \in SUBSET Shorter1(detected, match_span)}

\* str.find(entity_text, start_pos): the offset, or -1.
RECURSIVE Find(_, _, _)
Find(t, entity_text, start_pos) ==
    IF start_pos + Len(entity_text) > Len(t) THEN -1
    ELSE IF Slice(t, start_pos, start_pos + Len(entity_text)) = entity_text THEN start_pos
    ELSE Find(t, entity_text, start_pos + 1)

\* Lines 447-455: the loop over span_to_replacement (a dict, iterated in
\* insertion order; here a sequence of [span, replacement]) from entry i on.
RECURSIVE ScanSpanMap(_, _, _, _)
ScanSpanMap(map, i, span, marked) ==
    IF i > Len(map) THEN [overlap |-> FALSE, marked |-> marked]
    ELSE IF Overlap2(span, map[i].span)
         THEN IF SpanLen(span) > SpanLen(map[i].span)
              THEN ScanSpanMap(map, i + 1, span, marked \cup {map[i].span})
              ELSE [overlap |-> TRUE, marked |-> marked]
         ELSE ScanSpanMap(map, i + 1, span, marked)

RECURSIVE DropSpans(_, _)
DropSpans(map, marked) ==
    IF map = <<>> THEN <<>>
    ELSE IF Head(map).span \in marked THEN DropSpans(Tail(map), marked)
         ELSE <<Head(map)>> \o DropSpans(Tail(map), marked)

\* Lines 443-462 for one occurrence.
AddSpan(map, span, replacement) ==
    LET scan == ScanSpanMap(map, 1, span, {})
        kept == DropSpans(map, scan.marked)
    IN  IF scan.overlap THEN kept
        ELSE Append(kept, [span |-> span, replacement |-> replacement])

\* Lines 434-464: all occurrences of one entity, searched from start_pos.
RECURSIVE AddOccurrences(_, _, _, _, _)
AddOccurrences(map, t, entity_text, replacement, start_pos) ==
    LET pos == Find(t, entity_text, start_pos)
    IN  IF pos = -1 THEN map
        ELSE AddOccurrences(AddSpan(map, <<pos, pos + Len(entity_text)>>, replacement),
                            t, entity_text, replacement, pos + Len(entity_text))

\* The spans lines 434-441 enumerate for one entity.
RECURSIVE Occurrences(_, _, _)
Occurrences(t, entity_text, start_pos) ==
    LET pos == Find(t, entity_text, start_pos)
    IN  IF pos = -1 THEN {}
        ELSE {<<pos, pos + Len(entity_text)>>}
             \cup Occurrences(t, entity_text, pos + Len(entity_text))

SpansIn(map) == {map[i].span : i \in 1..Len(map)}

\* redacted_text[start:end] = list(replacement)
Splice(lst, start, end, replacement) ==
    LET s0 == IF start > Len(lst) THEN Len(lst) ELSE start
        e0 == IF end > Len(lst) THEN Len(lst) ELSE IF end < s0 THEN s0 ELSE end
    IN  SubSeq(lst, 1, s0) \o replacement \o SubSeq(lst, e0 + 1, Len(lst))

\* The greatest span in tuple order: the first of sorted(..., reverse=True).
LastSpan(S) ==
    CHOOSE x \in S : \A y \in S : y[1] < x[1] \/ (y[1] = x[1] /\ y[2] <= x[2])

ReplacementAt(map, span) == map[CHOOSE i \in 1..Len(map) : map[i].span = span].replacement

\* Lines 466-476: the replacements spliced into the character list, from the
\* last span to the first.
RECURSIVE ApplyReplacements(_, _, _)
ApplyReplacements(lst, map, todo) ==
    IF todo = {} THEN lst
    ELSE LET span == LastSpan(todo)
         IN  ApplyReplacements(Splice(lst, span[1], span[2], ReplacementAt(map, span)),
                               map, todo \ {span})

\* f"[{category}:{entity_type}]"
Marker(category, entity_type) == <<"[", category, ":", entity_type, "]">>

\* --------------------------- SemanticRedactionEngine.redact_text_with_context
\* A regex replacement template with an escape re.sub rejects ("\q").
BadTemplateTokens == {"ID\\q"}
BadTemplate(replacement) == \E i \in 1..Len(replacement) : replacement[i] \in BadTemplateTokens

\* \b at offset i of t (between t[i-1] and t[i] in Python terms).
WordBoundary(t, i) ==
    LET before == i >= 1 /\ i <= Len(t) /\ IsWordTok(t[i])
        after == i + 1 >= 1 /\ i + 1 <= Len(t) /\ IsWordTok(t[i + 1])
    IN  before # after

\* re.sub / str.replace: the non-overlapping occurrences from offset i on,
\* left to right; bounded says whether \b must hold at both ends.
RECURSIVE ReplaceFrom(_, _, _, _, _)
ReplaceFrom(t, i, entity_text, replacement, bounded) ==
    LET n == Len(entity_text)
    IN  IF i >= Len(t) THEN <<>>
        ELSE IF /\ i + n <= Len(t)
                /\ Slice(t, i, i + n) = entity_text
                /\ (bounded => WordBoundary(t, i) /\ WordBoundary(t, i + n))
             THEN replacement \o ReplaceFrom(t, i + n, entity_text, replacement, bounded)
             ELSE <<t[i + 1]>> \o ReplaceFrom(t, i + 1, entity_text, replacement, bounded)

\* _replace_with_context (lines 296-303), when re.sub accepts the template.
ReplaceWithContext(t, entity_text, replacement) ==
    ReplaceFrom(t, 0, entity_text, replacement, Len(entity_text) <= 3)

\* _replace_with_context raises re.error: a short entity goes through re.sub,
\* which parses the replacement as a template.
ReplaceRaises(entity_text, replacement) ==
    Len(entity_text) <= 3 /\ BadTemplate(replacement)

\* all_detected_entities: a dict category -> list of (text, type), here the
\* sequence of its items in insertion order.
HasCategory(ade, c) == \E i \in 1..Len(ade) : ade[i].category = c

EnsureCategory(ade, c) ==
    IF HasCategory(ade, c) THEN ade ELSE Append(ade, [category |-> c, entities |-> <<>>])

RECURSIVE EnsureCategories(_, _, _)
EnsureCategories(ade, cats, k) ==
    IF k = 0 THEN ade
    ELSE EnsureCategory(EnsureCategories(ade, cats, k - 1), cats[k])

AppendEntity(ade, c, ent) ==
    LET e == EnsureCategory(ade, c)
    IN  [i \in 1..Len(e) |->
            IF e[i].category = c
            THEN [category |-> c, entities |-> Append(e[i].entities, ent)]
            ELSE e[i]]

\* The (entity_text, category, entity_type) triples in dict order.
RECURSIVE Flatten(_)
Flatten(ade) ==
    IF ade = <<>> THEN <<>>
    ELSE [i \in 1..Len(Head(ade).entities) |->
             [text |-> Head(ade).entities[i].text,
              category |-> Head(ade).category,
              type |-> Head(ade).entities[i].type]]
         \o Flatten(Tail(ade))

\* list.sort(key=len, reverse=True): stable, longest first.
RECURSIVE SortByLength(_)
SortByLength(ents) ==
    IF ents = <<>> THEN <<>>
    ELSE LET longest == CHOOSE i \in 1..Len(ents) :
                 /\ \A j \in 1..Len(ents) : Len(ents[j].text) <= Len(ents[i].text)
                 /\ \A j \in 1..(i - 1) : Len(ents[j].text) < Len(ents[i].text)
         IN  <<ents[longest]>>
             \o SortByLength(SubSeq(ents, 1, longest - 1) \o SubSeq(ents, longest + 1, Len(ents)))

\* The (category, rule_name) pairs in the order lines 355-361 visit them.
RECURSIVE RuleList(_)
RuleList(cats) ==
    IF cats = <<>> THEN <<>>
    ELSE [i \in 1..Len(RulesFor(Head(cats))) |->
             [category |-> Head(cats), rule |-> RulesFor(Head(cats))[i]]]
         \o RuleList(Tail(cats))

\* Index in cats of category c.
CategoryIndex(cats, c) == CHOOSE k \in 1..Len(cats) : cats[k] = c

InCategories(cats, c) == \E k \in 1..Len(cats) : cats[k] = c

\* Threads that share one engine (and so one EntityTracker).
Threads == {1, 2}

\* ------------------------------------------------------------------ state
VARIABLES
    \* RedactionEngine fields
    sensitivity_level, use_nlp, nlp, semantic_engine,
    \* semantic_engine.entity_tracker: [entity_map, generated_names]
    tracker,
    \* position in the running operation
    pc,
    \* redact_text: parameters and locals
    text, categories, use_pseudonyms, preserve_context,
    redaction_stats, all_detected_entities, detected_spans,
    rule_index, last_end, matches, rule_errors, nlp_outcome,
    queue, redacted_text, span_to_replacement,
    \* what the last operation was given, returned and raised
    last_arg, result, raised,
    \* DatabaseManager tables redaction_logs and audit_log
    redaction_logs, audit_log,
    \* a session of calls on one engine: the last operation, the number of
    \* get_replacement calls, and the replacement each (category, text) pair
    \* was given by its first call
    op, calls, first_returned,
    \* PresidioRedactionEngine.redact_text: position, parameter and locals,
    \* the _process_text calls made and failed, what it returned and raised,
    \* and how each piece appended so far went ("blank" or the analyzer outcome)
    p_pc, p_text, p_todo, redacted_chunks, total_stats,
    p_calls, p_failed, p_result, p_raised, p_outcomes,
    \* threads calling get_replacement on the shared tracker: each one's
    \* position, arguments, generated replacement and returned value
    th_pc, th_arg, th_local, th_result,
    \* RuleManager: whether it has a CustomTermsManager, CustomTermsManager.terms,
    \* the custom_terms table, _sensitivity_mapping, the add/remove calls that
    \* returned normally, the last call with what it returned and raised, and
    \* the number of add/remove calls
    custom_terms_manager, terms, custom_terms, sensitivity_mapping,
    rm_history, rm_call, rm_result, rm_raised, rm_calls,
    \* an external detector at work: which one ran, what the backend reported,
    \* the categories asked for, the candidates it yielded and what it raised
    d_engine, d_reported, d_categories, d_candidates, d_raised,
    \* the number of redact_text calls finished on the engine
    redact_calls,
    \* redact_text without pseudonyms on text that holds markers: position,
    \* parameters, the matches to come, detected_spans, all_detected_entities
    \* and the text returned
    m_pc, m_text, m_categories, m_todo, m_detected, m_entities, m_result,
    \* DocumentProcessor.get_processor_for_file: the path of the last call and
    \* the class of the processor it returned
    dp_path, dp_result,
    \* the rule pass of redact_text seen match by match: detected_spans, the
    \* match spans handled so far, and the last one with whether it was
    \* accepted and the detected_spans it met
    rs_detected, rs_offered, rs_last,
    \* analyze_text: position, the text, the index of the current rule, the
    \* matches of the current category, results, and what the call raised
    a_pc, a_text, a_index, a_category_matches, a_results, a_raised,
    \* redact_text_with_context called on its own: position, the text and the
    \* flag given, all_entities still to process, redacted_text, and for each
    \* token of redacted_text whether a replacement put it there
    c_pc, c_text, c_use_pseudonyms, c_queue, c_redacted, c_inserted

engineVars == <<sensitivity_level, use_nlp, nlp, semantic_engine>>
callVars == <<text, categories, use_pseudonyms, preserve_context,
              redaction_stats, all_detected_entities, detected_spans,
              rule_index, last_end, matches, rule_errors, nlp_outcome,
              queue, redacted_text, span_to_replacement>>
dbVars == <<redaction_logs, audit_log>>
sessionVars == <<op, calls, first_returned>>
presidioVars == <<p_pc, p_text, p_todo, redacted_chunks, total_stats,
                  p_calls, p_failed, p_result, p_raised, p_outcomes>>
threadVars == <<th_pc, th_arg, th_local, th_result>>
rmVars == <<custom_terms_manager, terms, custom_terms, sensitivity_mapping,
            rm_history, rm_call, rm_result, rm_raised, rm_calls>>
detectVars == <<d_engine, d_reported, d_categories, d_candidates, d_raised>>
againVars == <<redact_calls>>
docVars == <<dp_path, dp_result>>
resolveVars == <<rs_detected, rs_offered, rs_last>>
analyzeVars == <<a_pc, a_text, a_index, a_category_matches, a_results, a_raised>>
contextVars == <<c_pc, c_text, c_use_pseudonyms, c_queue, c_redacted, c_inserted>>
markVars == <<m_pc, m_text, m_categories, m_todo, m_detected, m_entities, m_result>>
vars == <<engineVars, tracker, pc, callVars, last_arg, result, raised, dbVars,
          sessionVars, presidioVars, threadVars, rmVars, detectVars, againVars, markVars, docVars, resolveVars, analyzeVars, contextVars>>

\* RedactionEngine.__init__ (lines 58-92): the level is "medium"; the NLP
\* model is loaded, or loading failed or was not configured and use_nlp is
\* False; the semantic engine is built (its constructor only fills fields).
Init ==
    /\ sensitivity_level = "medium"
    /\ \E loaded \in BOOLEAN :
          /\ use_nlp = loaded
          /\ nlp = IF loaded THEN "model" ELSE None
    /\ semantic_engine = TRUE
    /\ tracker = FreshTracker
    /\ pc = "idle"
    /\ text = <<>>
    /\ categories = <<>>
    /\ use_pseudonyms = FALSE
    /\ preserve_context = FALSE
    /\ redaction_stats = <<>>
    /\ all_detected_entities = <<>>
    /\ detected_spans = {}
    /\ rule_index = 0
    /\ last_end = 0
    /\ matches = 0
    /\ rule_errors = 0
    /\ nlp_outcome = None
    /\ queue = <<>>
    /\ redacted_text = <<>>
    /\ span_to_replacement = <<>>
    /\ last_arg = None
    /\ result = None
    /\ raised = None
    /\ redaction_logs = <<>>
    /\ audit_log = <<>>
    /\ op = None
    /\ calls = 0
    /\ first_returned = <<>>
    /\ p_pc = "idle"
    /\ p_text = <<>>
    /\ p_todo = <<>>
    /\ redacted_chunks = <<>>
    /\ total_stats = <<>>
    /\ p_calls = 0
    /\ p_failed = 0
    /\ p_result = None
    /\ p_raised = None
    /\ p_outcomes = <<>>
    /\ th_pc = [t \in Threads |-> "idle"]
    /\ th_arg = [t \in Threads |-> None]
    /\ th_local = [t \in Threads |-> None]
    /\ th_result = [t \in Threads |-> None]
    /\ custom_terms_manager = TRUE
    /\ terms = <<>>
    /\ custom_terms = <<>>
    /\ sensitivity_mapping = SensitivityMapping
    /\ rm_history = <<>>
    /\ rm_call = [op |-> None, category |-> None, name |-> None, pattern |-> None]
    /\ rm_result = None
    /\ rm_raised = None
    /\ rm_calls = 0
    /\ d_engine = None
    /\ d_reported = <<>>
    /\ d_categories = <<>>
    /\ d_candidates = <<>>
    /\ d_raised = None
    /\ redact_calls = 0
    /\ m_pc = "idle"
    /\ m_text = <<>>
    /\ m_categories = <<>>
    /\ m_todo = <<>>
    /\ m_detected = {}
    /\ m_entities = <<>>
    /\ m_result = None
    /\ dp_path = <<>>
    /\ dp_result = None
    /\ rs_detected = {}
    /\ rs_offered = <<>>
    /\ rs_last = [span |-> <<0, 0>>, accepted |-> FALSE, before |-> {}]
    /\ a_pc = "idle"
    /\ a_text = <<>>
    /\ a_index = 0
    /\ a_category_matches = <<>>
    /\ a_results = <<>>
    /\ a_raised = None
    /\ c_pc = "idle"
    /\ c_text = <<>>
    /\ c_use_pseudonyms = FALSE
    /\ c_queue = <<>>
    /\ c_redacted = <<>>
    /\ c_inserted = <<>>

\* set_sensitivity that stores the level before validating it.
SetSensitivityStoringFirst(level) ==
    /\ pc = "idle"
    /\ last_arg' = level
    /\ sensitivity_level' = level
    /\ raised' = IF level \notin {"low", "medium", "high"} THEN "ValueError" ELSE None
    /\ op' = "set_sensitivity"
    /\ UNCHANGED <<use_nlp, nlp, semantic_engine, tracker, pc, callVars, result, dbVars,
                   calls, first_returned, presidioVars, threadVars, rmVars, detectVars, againVars, markVars, docVars, resolveVars, analyzeVars, contextVars>>

\* RedactionEngine.set_sensitivity (lines 138-147)
SetSensitivity(level) ==
    /\ pc = "idle"
    /\ last_arg' = level
    /\ IF level \notin {"low", "medium", "high"}
       THEN /\ raised' = "ValueError"
            /\ UNCHANGED sensitivity_level
       ELSE /\ raised' = None
            /\ sensitivity_level' = level
    /\ op' = "set_sensitivity"
    /\ UNCHANGED <<use_nlp, nlp, semantic_engine, tracker, pc, callVars, result, dbVars,
                   calls, first_returned, presidioVars, threadVars, rmVars, detectVars, againVars, markVars, docVars, resolveVars, analyzeVars, contextVars>>

\* redact_text lines 309-327 with categories=None: the categories of the
\* current level, zeroed statistics, then NLP detection if it is available.
\* The flags use_pseudonyms and preserve_context are first read at line 411;
\* the model draws their values there (RulesDone).
Redact(t) ==
    /\ pc = "idle"
    /\ text' = t
    /\ categories' = SensitivityMapping[sensitivity_level]
    /\ UNCHANGED <<use_pseudonyms, preserve_context>>
    /\ redaction_stats' = [c \in SeqRange(categories') |-> 0]
    /\ all_detected_entities' = <<>>
    /\ detected_spans' = {}
    /\ rule_index' = 1
    /\ last_end' = 0
    /\ matches' = 0
    /\ rule_errors' = 0
    /\ queue' = <<>>
    /\ redacted_text' = <<>>
    /\ span_to_replacement' = <<>>
    /\ last_arg' = t
    /\ result' = None
    /\ raised' = None
    /\ IF use_nlp /\ nlp # None
       THEN pc' = "nlp" /\ nlp_outcome' = None
       ELSE pc' = "rules" /\ nlp_outcome' = "skipped"
    /\ UNCHANGED <<engineVars, tracker, dbVars,
                   sessionVars, presidioVars, threadVars, rmVars, detectVars, againVars, markVars, docVars, resolveVars, analyzeVars, contextVars>>

\* detect_entities (lines 170-187) and lines 333-346 for one entity of
\* doc.ents: dropped when below the threshold, unmapped or outside the
\* requested categories; a blank one only enters its category in the
\* dict; any other is listed and counted.
NlpEntity(span, label, score) ==
    /\ pc = "nlp"
    /\ matches < MaxEntities
    /\ span \in SpansOf(Len(text))
    /\ span[1] >= last_end
    /\ last_end' = span[2]
    /\ matches' = matches + 1
    /\ LET entity_text == Slice(text, span[1], span[2])
           category == ENTITY_TYPE_MAPPING(label)
       IN  IF /\ score >= NerConfidenceThreshold
              /\ category # None
              /\ InCategories(categories, category)
           THEN IF IsSpace(entity_text)
                THEN /\ all_detected_entities' = EnsureCategory(all_detected_entities, category)
                     /\ UNCHANGED redaction_stats
                ELSE /\ all_detected_entities' =
                           AppendEntity(all_detected_entities, category,
                                        [text |-> entity_text, type |-> label])
                     /\ redaction_stats' = [redaction_stats EXCEPT ![category] = @ + 1]
           ELSE UNCHANGED <<all_detected_entities, redaction_stats>>
    /\ UNCHANGED <<engineVars, tracker, pc, text, categories, use_pseudonyms,
                   preserve_context, detected_spans, rule_index, rule_errors,
                   nlp_outcome, queue, redacted_text, span_to_replacement,
                   last_arg, result, raised, dbVars,
                   sessionVars, presidioVars, threadVars, rmVars, detectVars, againVars, markVars, docVars, resolveVars, analyzeVars, contextVars>>

\* Entering the rule loop (line 353): detected_spans starts empty and the
\* first category is entered.
StartRules(outcome) ==
    /\ pc' = "rules"
    /\ nlp_outcome' = outcome
    /\ last_end' = 0
    /\ matches' = 0
    /\ UNCHANGED <<engineVars, tracker, text, categories, use_pseudonyms,
                   preserve_context, redaction_stats, all_detected_entities,
                   detected_spans, rule_index, rule_errors, queue, redacted_text,
                   span_to_replacement, last_arg, result, raised, dbVars,
                   sessionVars, presidioVars, threadVars, rmVars, detectVars, againVars, markVars, docVars, resolveVars, analyzeVars, contextVars>>

\* The NLP model has reported all its entities.
NlpDone ==
    /\ pc = "nlp"
    /\ StartRules("ok")

\* self.nlp(text) raises: detect_entities logs it and returns {} (lines
\* 191-193), so no entity is listed.
NlpThrows ==
    /\ pc = "nlp"
    /\ matches = 0
    /\ StartRules("threw")

CurrentRule == RuleList(categories)[rule_index]

\* Lines 364-405 for one re.finditer match of the current rule: blank
\* matches are skipped; an accepted match is added to detected_spans, listed
\* and counted; spans marked as shorter are removed in either case.
RuleMatch(match_span) ==
    /\ pc = "rules"
    /\ rule_index <= Len(RuleList(categories))
    /\ matches < MaxMatches
    /\ match_span \in SpansOf(Len(text))
    /\ match_span[1] >= last_end
    /\ last_end' = match_span[2]
    /\ matches' = matches + 1
    /\ LET match_text == Slice(text, match_span[1], match_span[2])
           category == CurrentRule.category
           entered == EnsureCategories(all_detected_entities, categories,
                                       CategoryIndex(categories, category))
       IN  IF IsSpace(match_text)
           THEN UNCHANGED <<detected_spans, all_detected_entities, redaction_stats>>
           ELSE \E out \in ResolveRuleMatch(detected_spans, match_span) :
                   /\ detected_spans' = out.detected
                   /\ IF out.accepted
                      THEN /\ all_detected_entities' =
                                 AppendEntity(entered, category,
                                              [text |-> match_text, type |-> CurrentRule.rule])
                           /\ redaction_stats' = [redaction_stats EXCEPT ![category] = @ + 1]
                      ELSE UNCHANGED <<all_detected_entities, redaction_stats>>
    /\ UNCHANGED <<engineVars, tracker, pc, text, categories, use_pseudonyms,
                   preserve_context, rule_index, rule_errors, nlp_outcome, queue,
                   redacted_text, span_to_replacement, last_arg, result, raised, dbVars,
                   sessionVars, presidioVars, threadVars, rmVars, detectVars, againVars, markVars, docVars, resolveVars, analyzeVars, contextVars>>

\* re.finditer of the current rule is exhausted: the next rule.
NextRule ==
    /\ pc = "rules"
    /\ rule_index <= Len(RuleList(categories))
    /\ rule_index' = rule_index + 1
    /\ last_end' = 0
    /\ UNCHANGED <<engineVars, tracker, pc, text, categories, use_pseudonyms,
                   preserve_context, redaction_stats, all_detected_entities,
                   detected_spans, matches, rule_errors, nlp_outcome, queue,
                   redacted_text, span_to_replacement, last_arg, result, raised, dbVars,
                   sessionVars, presidioVars, threadVars, rmVars, detectVars, againVars, markVars, docVars, resolveVars, analyzeVars, contextVars>>

\* The current rule raises (its pattern does not compile, or matching
\* fails): lines 406-408 log it and continue with the next rule.
RuleError ==
    /\ pc = "rules"
    /\ rule_index <= Len(RuleList(categories))
    /\ rule_errors' = rule_errors + 1
    /\ rule_index' = rule_index + 1
    /\ last_end' = 0
    /\ UNCHANGED <<engineVars, tracker, pc, text, categories, use_pseudonyms,
                   preserve_context, redaction_stats, all_detected_entities,
                   detected_spans, matches, nlp_outcome, queue,
                   redacted_text, span_to_replacement, last_arg, result, raised, dbVars,
                   sessionVars, presidioVars, threadVars, rmVars, detectVars, againVars, markVars, docVars, resolveVars, analyzeVars, contextVars>>

\* Line 411: after the last rule, the substitution path is chosen by the
\* call's flags.
RulesDone(pseudonyms, context) ==
    /\ pc = "rules"
    /\ rule_index > Len(RuleList(categories))
    /\ use_pseudonyms' = pseudonyms
    /\ preserve_context' = context
    /\ LET ade == EnsureCategories(all_detected_entities, categories, Len(categories))
       IN  /\ all_detected_entities' = ade
           /\ IF context /\ semantic_engine
              THEN /\ pc' = "context"
                   /\ queue' = SortByLength(Flatten(ade))
                   /\ redacted_text' = text
              ELSE /\ pc' = "spans"
                   /\ queue' = Flatten(ade)
                   /\ redacted_text' = text
    /\ last_end' = 0
    /\ matches' = 0
    /\ UNCHANGED <<engineVars, tracker, text, categories,
                   redaction_stats, detected_spans, rule_index,
                   rule_errors, nlp_outcome, span_to_replacement,
                   last_arg, result, raised, dbVars,
                   sessionVars, presidioVars, threadVars, rmVars, detectVars, againVars, markVars, docVars, resolveVars, analyzeVars, contextVars>>

\* redact_text_with_context lines 267-279 for the next entity: its
\* replacement, then every occurrence replaced in the text so far.  A
\* re.error of re.sub is not caught anywhere and leaves redact_text.
ContextStep ==
    /\ pc = "context"
    /\ queue # <<>>
    /\ LET e == Head(queue)
       IN  \E o \in (IF use_pseudonyms
                     THEN GetReplacement(tracker, e.category, e.text, e.type)
                     ELSE {[replacement |-> Marker(e.category, e.type), tracker |-> tracker]}) :
              /\ tracker' = o.tracker
              /\ IF ReplaceRaises(e.text, o.replacement)
                 THEN /\ pc' = "raised"
                      /\ raised' = "re.error"
                      /\ UNCHANGED <<queue, redacted_text>>
                 ELSE /\ redacted_text' = ReplaceWithContext(redacted_text, e.text, o.replacement)
                      /\ queue' = Tail(queue)
                      /\ UNCHANGED <<pc, raised>>
    /\ UNCHANGED <<engineVars, text, categories, use_pseudonyms, preserve_context,
                   redaction_stats, all_detected_entities, detected_spans, rule_index,
                   last_end, matches, rule_errors, nlp_outcome, span_to_replacement,
                   last_arg, result, dbVars,
                   sessionVars, presidioVars, threadVars, rmVars, detectVars, againVars, markVars, docVars, resolveVars, analyzeVars, contextVars>>

\* Lines 423-464 for the next entity: its replacement, then each occurrence
\* found by text.find resolved against span_to_replacement.
SpanStep ==
    /\ pc = "spans"
    /\ queue # <<>>
    /\ LET e == Head(queue)
       IN  \E o \in (IF use_pseudonyms /\ semantic_engine
                     THEN GetReplacement(tracker, e.category, e.text, e.type)
                     ELSE {[replacement |-> Marker(e.category, e.type), tracker |-> tracker]}) :
              /\ tracker' = o.tracker
              /\ span_to_replacement' =
                     AddOccurrences(span_to_replacement, text, e.text, o.replacement, 0)
    /\ queue' = Tail(queue)
    /\ UNCHANGED <<engineVars, pc, text, categories, use_pseudonyms, preserve_context,
                   redaction_stats, all_detected_entities, detected_spans, rule_index,
                   last_end, matches, rule_errors, nlp_outcome, redacted_text,
                   last_arg, result, raised, dbVars,
                   sessionVars, presidioVars, threadVars, rmVars, detectVars, againVars, markVars, docVars, resolveVars, analyzeVars, contextVars>>

\* Lines 466-478 (spans path) and line 478 (context path): the result is
\* returned.  Nothing is written to redaction_logs or audit_log.
Return ==
    /\ pc \in {"context", "spans"}
    /\ queue = <<>>
    /\ redacted_text' =
           IF pc = "spans"
           THEN ApplyReplacements(text, span_to_replacement, SpansIn(span_to_replacement))
           ELSE redacted_text
    /\ result' = [text |-> redacted_text', stats |-> redaction_stats]
    /\ pc' = "done"
    /\ UNCHANGED <<engineVars, tracker, text, categories, use_pseudonyms, preserve_context,
                   redaction_stats, all_detected_entities, detected_spans, rule_index,
                   last_end, matches, rule_errors, nlp_outcome, queue, span_to_replacement,
                   last_arg, raised, dbVars,
                   sessionVars, presidioVars, threadVars, rmVars, detectVars, againVars, markVars, docVars, resolveVars, analyzeVars, contextVars>>

Next ==
    \/ \E t \in Texts : Redact(t)
    \/ \E span \in SpansOf(TextLen), label \in EntityLabels, score \in Scores :
          NlpEntity(span, label, score)
    \/ NlpDone
    \/ NlpThrows
    \/ \E span \in SpansOf(TextLen) : RuleMatch(span)
    \/ NextRule
    \/ RuleError
    \/ \E pseudonyms \in BOOLEAN, context \in BOOLEAN : RulesDone(pseudonyms, context)
    \/ ContextStep
    \/ SpanStep
    \/ Return

Spec == Init /\ [][Next]_vars

\* ------------------------------------------------- a session on one engine
\* What callers hand to EntityTracker.get_replacement.
TrackerCategories == {"PII", "LOCATIONS"}
TrackerTexts == {<<"a">>, <<"@">>}
TrackerTypes == {"PERSON", None}

\* One call of semantic_engine.entity_tracker.get_replacement (lines 33-59)
\* on the engine's tracker; first_returned records what the first call with
\* the pair returned.
GetReplacementCall(category, entity_text, entity_type) ==
    /\ pc = "idle"
    /\ calls < MaxCalls
    /\ calls' = calls + 1
    /\ op' = "get_replacement"
    /\ last_arg' = <<category, entity_text>>
    /\ \E o \in GetReplacement(tracker, category, entity_text, entity_type) :
          /\ tracker' = o.tracker
          /\ result' = o.replacement
          /\ first_returned' =
                 IF <<category, entity_text>> \in DOMAIN first_returned
                 THEN first_returned
                 ELSE MapPut(first_returned, <<category, entity_text>>, o.replacement)
    /\ raised' = None
    /\ UNCHANGED <<engineVars, pc, callVars, dbVars, presidioVars, threadVars, rmVars, detectVars, againVars, markVars, docVars, resolveVars, analyzeVars, contextVars>>

SessionNext ==
    \/ \E level \in LevelArgs : SetSensitivity(level)
    \/ \E category \in TrackerCategories, entity_text \in TrackerTexts,
          entity_type \in TrackerTypes :
          GetReplacementCall(category, entity_text, entity_type)

SpecSession == Init /\ [][SessionNext]_vars

\* ------------------------------------ PresidioRedactionEngine.redact_text
PresidioAlphabet == {"a", "\n"}
PresidioTexts == SeqsUpTo(PresidioAlphabet, PresidioTextLen)

\* text.split("\n\n"): cur is the paragraph read so far.
RECURSIVE SplitParagraphs(_, _)
SplitParagraphs(t, cur) ==
    IF t = <<>> THEN <<cur>>
    ELSE IF Len(t) >= 2 /\ t[1] = "\n" /\ t[2] = "\n"
         THEN <<cur>> \o SplitParagraphs(SubSeq(t, 3, Len(t)), <<>>)
         ELSE SplitParagraphs(Tail(t), Append(cur, Head(t)))

\* not paragraph.strip()
IsBlank(paragraph) == \A i \in 1..Len(paragraph) : paragraph[i] \in {"\n", " "}

\* Lines 126-127: paragraph[j:j+MAX_TEXT_SIZE] for j in range(0, len, MAX_TEXT_SIZE).
RECURSIVE Slices(_, _)
Slices(paragraph, j) ==
    IF j >= Len(paragraph) THEN <<>>
    ELSE LET end == IF j + MAX_TEXT_SIZE > Len(paragraph) THEN Len(paragraph)
                    ELSE j + MAX_TEXT_SIZE
         IN  <<[text |-> Slice(paragraph, j, end), process |-> TRUE]>>
             \o Slices(paragraph, j + MAX_TEXT_SIZE)

\* Lines 117-151: the pieces appended to redacted_chunks, in order; a blank
\* paragraph is appended as it is, the others go through _process_text.
RECURSIVE ChunkPlan(_)
ChunkPlan(paragraphs) ==
    IF paragraphs = <<>> THEN <<>>
    ELSE LET paragraph == Head(paragraphs)
         IN  (IF IsBlank(paragraph) THEN <<[text |-> paragraph, process |-> FALSE]>>
              ELSE IF Len(paragraph) > MAX_TEXT_SIZE THEN Slices(paragraph, 0)
              ELSE <<[text |-> paragraph, process |-> TRUE]>>)
             \o ChunkPlan(Tail(paragraphs))

\* "\n\n".join(redacted_chunks)
RECURSIVE Join(_)
Join(chunks) ==
    IF chunks = <<>> THEN <<>>
    ELSE IF Len(chunks) = 1 THEN chunks[1]
    ELSE chunks[1] \o <<"\n", "\n">> \o Join(Tail(chunks))

\* What the analyzer does with one piece of text.
AnalyzerOutcomes == {"raises", "no_results", "results"}

\* _process_text (lines 165-208).  The analyzer raises; or it finds nothing
\* and the text comes back as it is with empty statistics; or it finds
\* something and line 189 raises NameError (OperatorConfig is imported only
\* inside __init__ and _setup_operators).
ProcessText(chunk, outcome) ==
    IF outcome = "no_results"
    THEN [raises |-> FALSE, text |-> chunk, stats |-> <<>>]
    ELSE [raises |-> TRUE, text |-> chunk, stats |-> <<>>]

\* Lines 99-107: empty text raises ValueError; a text longer than
\* MAX_TEXT_SIZE is split into paragraphs.
PresidioRedact(t) ==
    /\ p_pc = "idle"
    /\ p_text' = t
    /\ IF t = <<>>
       THEN /\ p_pc' = "raised"
            /\ p_raised' = "ValueError"
            /\ UNCHANGED p_todo
       ELSE /\ p_pc' = IF Len(t) > MAX_TEXT_SIZE THEN "chunks" ELSE "whole"
            /\ p_todo' = IF Len(t) > MAX_TEXT_SIZE THEN ChunkPlan(SplitParagraphs(t, <<>>))
                         ELSE <<>>
            /\ UNCHANGED p_raised
    /\ UNCHANGED <<redacted_chunks, total_stats, p_calls, p_failed, p_result, p_outcomes>>
    /\ UNCHANGED <<engineVars, tracker, pc, callVars, last_arg, result, raised, dbVars,
                   sessionVars, threadVars, rmVars, detectVars, againVars, markVars, docVars, resolveVars, analyzeVars, contextVars>>

\* Lines 119-121: a blank paragraph is kept.
PresidioBlank ==
    /\ p_pc = "chunks"
    /\ p_todo # <<>>
    /\ ~Head(p_todo).process
    /\ redacted_chunks' = Append(redacted_chunks, Head(p_todo).text)
    /\ p_todo' = Tail(p_todo)
    /\ p_outcomes' = Append(p_outcomes, "blank")
    /\ UNCHANGED <<p_pc, p_text, total_stats, p_calls, p_failed, p_result, p_raised>>
    /\ UNCHANGED <<engineVars, tracker, pc, callVars, last_arg, result, raised, dbVars,
                   sessionVars, threadVars, rmVars, detectVars, againVars, markVars, docVars, resolveVars, analyzeVars, contextVars>>

\* Lines 128-138 and 141-151: one piece through _process_text; on an
\* exception the original piece is kept.
PresidioChunk(outcome) ==
    /\ p_pc = "chunks"
    /\ p_todo # <<>>
    /\ Head(p_todo).process
    /\ LET r == ProcessText(Head(p_todo).text, outcome)
       IN  /\ redacted_chunks' = Append(redacted_chunks,
                                        IF r.raises THEN Head(p_todo).text ELSE r.text)
           /\ total_stats' = IF r.raises THEN total_stats ELSE total_stats \o r.stats
           /\ p_failed' = IF r.raises THEN p_failed + 1 ELSE p_failed
    /\ p_calls' = p_calls + 1
    /\ p_todo' = Tail(p_todo)
    /\ p_outcomes' = Append(p_outcomes, outcome)
    /\ UNCHANGED <<p_pc, p_text, p_result, p_raised>>
    /\ UNCHANGED <<engineVars, tracker, pc, callVars, last_arg, result, raised, dbVars,
                   sessionVars, threadVars, rmVars, detectVars, againVars, markVars, docVars, resolveVars, analyzeVars, contextVars>>

\* Lines 153-155: the pieces joined with a blank line.
PresidioReturn ==
    /\ p_pc = "chunks"
    /\ p_todo = <<>>
    /\ p_result' = [text |-> Join(redacted_chunks), stats |-> total_stats]
    /\ p_pc' = "done"
    /\ UNCHANGED <<p_text, p_todo, redacted_chunks, total_stats, p_calls, p_failed, p_raised,
                   p_outcomes>>
    /\ UNCHANGED <<engineVars, tracker, pc, callVars, last_arg, result, raised, dbVars,
                   sessionVars, threadVars, rmVars, detectVars, againVars, markVars, docVars, resolveVars, analyzeVars, contextVars>>

\* Lines 156-163: a short text in one piece; any exception is caught and the
\* original text returned with empty statistics.
PresidioWhole(outcome) ==
    /\ p_pc = "whole"
    /\ LET r == ProcessText(p_text, outcome)
       IN  /\ p_result' = IF r.raises THEN [text |-> p_text, stats |-> <<>>]
                          ELSE [text |-> r.text, stats |-> r.stats]
           /\ p_failed' = IF r.raises THEN p_failed + 1 ELSE p_failed
    /\ p_calls' = p_calls + 1
    /\ p_pc' = "done"
    /\ p_outcomes' = Append(p_outcomes, outcome)
    /\ UNCHANGED <<p_text, p_todo, redacted_chunks, total_stats, p_raised>>
    /\ UNCHANGED <<engineVars, tracker, pc, callVars, last_arg, result, raised, dbVars,
                   sessionVars, threadVars, rmVars, detectVars, againVars, markVars, docVars, resolveVars, analyzeVars, contextVars>>

PresidioNext ==
    \/ \E t \in PresidioTexts : PresidioRedact(t)
    \/ PresidioBlank
    \/ \E outcome \in AnalyzerOutcomes : PresidioChunk(outcome)
    \/ PresidioReturn
    \/ \E outcome \in AnalyzerOutcomes : PresidioWhole(outcome)

SpecPresidio == Init /\ [][PresidioNext]_vars

\* ------------------------------ concurrent get_replacement on one tracker
\* EntityTracker.get_replacement holds no lock; between its statements
\* another thread may run.  Lines 46-51: the lookup; a stored value is
\* returned at once.
ThreadLookup(t, category, entity_text, entity_type) ==
    /\ th_pc[t] = "idle"
    /\ th_arg' = [th_arg EXCEPT ![t] = [category |-> category, text |-> entity_text,
                                        type |-> entity_type]]
    /\ IF Stored(tracker.entity_map, category, entity_text)
       THEN /\ th_pc' = [th_pc EXCEPT ![t] = "returned"]
            /\ th_result' = [th_result EXCEPT ![t] = tracker.entity_map[<<category, entity_text>>]]
       ELSE /\ th_pc' = [th_pc EXCEPT ![t] = "absent"]
            /\ UNCHANGED th_result
    /\ UNCHANGED <<th_local, tracker>>
    /\ UNCHANGED <<engineVars, pc, callVars, last_arg, result, raised, dbVars,
                   sessionVars, presidioVars, rmVars, detectVars, againVars, markVars, docVars, resolveVars, analyzeVars, contextVars>>

\* Line 54: _generate_replacement, which also appends to generated_names.
ThreadGenerate(t) ==
    /\ th_pc[t] = "absent"
    /\ \E g \in GenerateReplacement(th_arg[t].category, th_arg[t].text, th_arg[t].type,
                                    tracker.generated_names) :
          /\ th_local' = [th_local EXCEPT ![t] = g.replacement]
          /\ tracker' = [tracker EXCEPT !.generated_names =
                            IF g.pool = None THEN @
                            ELSE [@ EXCEPT ![g.pool] = Append(@, g.replacement)]]
    /\ th_pc' = [th_pc EXCEPT ![t] = "generated"]
    /\ UNCHANGED <<th_arg, th_result>>
    /\ UNCHANGED <<engineVars, pc, callVars, last_arg, result, raised, dbVars,
                   sessionVars, presidioVars, rmVars, detectVars, againVars, markVars, docVars, resolveVars, analyzeVars, contextVars>>

\* Lines 57-59: the replacement is stored and returned.
ThreadStore(t) ==
    /\ th_pc[t] = "generated"
    /\ tracker' = [tracker EXCEPT !.entity_map =
                      MapPut(@, <<th_arg[t].category, th_arg[t].text>>, th_local[t])]
    /\ th_result' = [th_result EXCEPT ![t] = th_local[t]]
    /\ th_pc' = [th_pc EXCEPT ![t] = "returned"]
    /\ UNCHANGED <<th_arg, th_local>>
    /\ UNCHANGED <<engineVars, pc, callVars, last_arg, result, raised, dbVars,
                   sessionVars, presidioVars, rmVars, detectVars, againVars, markVars, docVars, resolveVars, analyzeVars, contextVars>>

ThreadsNext ==
    \/ \E t \in Threads, category \in TrackerCategories, entity_text \in TrackerTexts,
          entity_type \in TrackerTypes :
          ThreadLookup(t, category, entity_text, entity_type)
    \/ \E t \in Threads : ThreadGenerate(t)
    \/ \E t \in Threads : ThreadStore(t)

SpecThreads == Init /\ [][ThreadsNext]_vars

\* ------------------------------------------------------------- RuleManager
\* Categories, rule names and patterns a caller may hand to the rule manager.
\* ("PII", "SSN_HYPHENATED") and ("FINANCIAL", "CREDIT_CARD_16") name preset
\* rules; "NEW" is a category without preset rules.
RuleCategories == {"PII", "NEW"}
RuleNames == {"SSN_HYPHENATED", "MY_RULE"}
\* A pattern is a sequence of characters; a caller may also pass None, which
\* is not a string at all.
Patterns == {<<"a">>, <<"(", ")">>, <<"(">>, <<")", "(">>}

\* _preset_rules, restricted to the modelled catalogue: (category, name) -> pattern.
PresetRules ==
    [p \in {<<"PII", "SSN_HYPHENATED">>, <<"FINANCIAL", "CREDIT_CARD_16">>} |->
        IF p[2] = "SSN_HYPHENATED" THEN <<"\\b\\d{3}-\\d{2}-\\d{4}\\b">>
        ELSE <<"\\b(?:\\d{4}[-\\s]?){3}\\d{4}\\b">>]

\* re.compile on the modelled patterns: groups must be balanced.
RECURSIVE Balanced(_, _, _)
Balanced(pattern, i, depth) ==
    IF i > Len(pattern) THEN depth = 0
    ELSE IF pattern[i] = "(" THEN Balanced(pattern, i + 1, depth + 1)
    ELSE IF pattern[i] = ")" THEN depth > 0 /\ Balanced(pattern, i + 1, depth - 1)
    ELSE Balanced(pattern, i + 1, depth)

\* What re.compile(pattern) does: returns, raises re.error, or raises
\* TypeError for a pattern that is not a string.
Compile(pattern) ==
    IF pattern = None THEN "TypeError"
    ELSE IF Balanced(pattern, 1, 0) THEN "ok"
    ELSE "re.error"

\* A dict without key k.
MapDel(map, key) == [k \in DOMAIN map \ {key} |-> map[k]]

\* Names under which a (category, name) -> pattern map has an entry of category.
NamesIn(map, category) == {p[2] : p \in {q \in DOMAIN map : q[1] = category}}

\* CustomTermsManager.get_terms_for_category: name -> pattern.
GetTermsForCategory(t, category) ==
    [name \in NamesIn(t, category) |-> t[<<category, name>>]]

\* get_rules_for_category with the custom rules replacing the preset rules
\* of the category instead of updating them.
GetRulesForCategoryCustomOnly(ctm, t, category) ==
    LET preset == GetTermsForCategory(PresetRules, category)
        custom == IF ctm THEN GetTermsForCategory(t, category) ELSE <<>>
    IN  IF DOMAIN custom # {} THEN custom ELSE preset

\* get_rules_for_category with the update order reversed: preset rules
\* written over the custom rules.
GetRulesForCategoryPresetLast(ctm, t, category) ==
    LET preset == GetTermsForCategory(PresetRules, category)
        custom == IF ctm THEN GetTermsForCategory(t, category) ELSE <<>>
    IN  [name \in DOMAIN preset \cup DOMAIN custom |->
            IF name \in DOMAIN preset THEN preset[name] ELSE custom[name]]

\* RuleManager.get_rules_for_category (lines 214-235): the preset rules of
\* the category, updated with the custom rules when there is a manager.
GetRulesForCategory(ctm, t, category) ==
    LET preset == GetTermsForCategory(PresetRules, category)
        custom == IF ctm THEN GetTermsForCategory(t, category) ELSE <<>>
    IN  [name \in DOMAIN preset \cup DOMAIN custom |->
            IF name \in DOMAIN custom THEN custom[name] ELSE preset[name]]

\* The call is recorded; an add or remove call is counted.
RmEnter(call, counted) ==
    /\ rm_call' = call
    /\ rm_calls' = IF counted THEN rm_calls + 1 ELSE rm_calls

\* The call raises: nothing is returned and nothing else changes.
RmRaise(exc) ==
    /\ rm_raised' = exc
    /\ rm_result' = None
    /\ UNCHANGED <<terms, custom_terms, audit_log, rm_history>>

\* CustomTermsManager.add_term (lines 63-90): upsert into the custom_terms
\* table, update of the in-memory cache, audit record.
AddTerm(category, name, pattern) ==
    /\ custom_terms' = MapPut(custom_terms, <<category, name>>, pattern)
    /\ terms' = MapPut(terms, <<category, name>>, pattern)
    /\ audit_log' = Append(audit_log, [user_id |-> "system", action |-> "add_custom_term",
                                       details |-> <<name, category>>])
    /\ rm_history' = Append(rm_history, [op |-> "add", category |-> category,
                                         name |-> name, pattern |-> pattern])
    /\ rm_raised' = None
    /\ rm_result' = None

\* add_custom_rule without the re.compile validation of lines 253-256.
AddCustomRuleUnvalidated(category, rule_name, pattern) ==
    /\ rm_calls < MaxRuleOps
    /\ RmEnter([op |-> "add_custom_rule", category |-> category, name |-> rule_name,
                pattern |-> pattern], TRUE)
    /\ IF ~custom_terms_manager THEN RmRaise("ValueError")
       ELSE AddTerm(category, rule_name, pattern)
    /\ UNCHANGED <<custom_terms_manager, sensitivity_mapping>>
    /\ UNCHANGED <<engineVars, tracker, pc, callVars, last_arg, result, raised,
                   redaction_logs, sessionVars, presidioVars, threadVars, detectVars, againVars, markVars, docVars, resolveVars, analyzeVars, contextVars>>

\* RuleManager.add_custom_rule (lines 237-258).
AddCustomRule(category, rule_name, pattern) ==
    /\ rm_calls < MaxRuleOps
    /\ RmEnter([op |-> "add_custom_rule", category |-> category, name |-> rule_name,
                pattern |-> pattern], TRUE)
    /\ IF ~custom_terms_manager THEN RmRaise("ValueError")
       ELSE IF Compile(pattern) = "TypeError" THEN RmRaise("TypeError")
       ELSE IF Compile(pattern) = "re.error" THEN RmRaise("ValueError")
       ELSE AddTerm(category, rule_name, pattern)
    /\ UNCHANGED <<custom_terms_manager, sensitivity_mapping>>
    /\ UNCHANGED <<engineVars, tracker, pc, callVars, last_arg, result, raised,
                   redaction_logs, sessionVars, presidioVars, threadVars, detectVars, againVars, markVars, docVars, resolveVars, analyzeVars, contextVars>>

\* RuleManager.remove_custom_rule (lines 260-274) with
\* CustomTermsManager.remove_term (lines 92-118): delete from the table,
\* delete from the cache when present, audit record.
RemoveCustomRule(category, rule_name) ==
    /\ rm_calls < MaxRuleOps
    /\ RmEnter([op |-> "remove_custom_rule", category |-> category, name |-> rule_name,
                pattern |-> None], TRUE)
    /\ IF ~custom_terms_manager THEN RmRaise("ValueError")
       ELSE /\ custom_terms' = MapDel(custom_terms, <<category, rule_name>>)
            /\ terms' = IF <<category, rule_name>> \in DOMAIN terms
                        THEN MapDel(terms, <<category, rule_name>>) ELSE terms
            /\ audit_log' = Append(audit_log, [user_id |-> "system",
                                               action |-> "remove_custom_term",
                                               details |-> <<rule_name, category>>])
            /\ rm_history' = Append(rm_history, [op |-> "remove", category |-> category,
                                                 name |-> rule_name, pattern |-> None])
            /\ rm_raised' = None
            /\ rm_result' = None
    /\ UNCHANGED <<custom_terms_manager, sensitivity_mapping>>
    /\ UNCHANGED <<engineVars, tracker, pc, callVars, last_arg, result, raised,
                   redaction_logs, sessionVars, presidioVars, threadVars, detectVars, againVars, markVars, docVars, resolveVars, analyzeVars, contextVars>>

\* A get_rules_for_category call (lines 214-235).
GetRules(category) ==
    /\ RmEnter([op |-> "get_rules_for_category", category |-> category, name |-> None,
                pattern |-> None], FALSE)
    /\ rm_result' = GetRulesForCategory(custom_terms_manager, terms, category)
    /\ rm_raised' = None
    /\ UNCHANGED <<custom_terms_manager, terms, custom_terms, sensitivity_mapping,
                   rm_history>>
    /\ UNCHANGED <<engineVars, tracker, pc, callVars, last_arg, result, raised,
                   dbVars, sessionVars, presidioVars, threadVars, detectVars, againVars, markVars, docVars, resolveVars, analyzeVars, contextVars>>

\* RuleManager.get_categories_for_sensitivity (lines 199-212).
GetCategoriesForSensitivity(level) ==
    /\ RmEnter([op |-> "get_categories_for_sensitivity", category |-> level,
                name |-> None, pattern |-> None], FALSE)
    /\ IF level \notin DOMAIN sensitivity_mapping
       THEN /\ rm_raised' = "ValueError"
            /\ rm_result' = None
       ELSE /\ rm_raised' = None
            /\ rm_result' = sensitivity_mapping[level]
    /\ UNCHANGED <<custom_terms_manager, terms, custom_terms, sensitivity_mapping,
                   rm_history>>
    /\ UNCHANGED <<engineVars, tracker, pc, callVars, last_arg, result, raised,
                   dbVars, sessionVars, presidioVars, threadVars, detectVars, againVars, markVars, docVars, resolveVars, analyzeVars, contextVars>>

\* A new RuleManager on the same database (rule_manager.py lines 16-181):
\* with a CustomTermsManager, whose _load_terms (custom_terms.py lines 24-39)
\* reads the custom_terms table, or without one.
RuleManagerInit(with_manager) ==
    /\ RmEnter([op |-> "__init__", category |-> None, name |-> None, pattern |-> None],
               FALSE)
    /\ custom_terms_manager' = with_manager
    /\ terms' = IF with_manager THEN custom_terms ELSE <<>>
    /\ sensitivity_mapping' = SensitivityMapping
    /\ rm_result' = None
    /\ rm_raised' = None
    /\ UNCHANGED <<custom_terms, rm_history>>
    /\ UNCHANGED <<engineVars, tracker, pc, callVars, last_arg, result, raised,
                   dbVars, sessionVars, presidioVars, threadVars, detectVars, againVars, markVars, docVars, resolveVars, analyzeVars, contextVars>>

RulesNext ==
    \/ \E category \in RuleCategories, rule_name \in RuleNames, pattern \in Patterns :
          AddCustomRule(category, rule_name, pattern)
    \/ \E category \in RuleCategories, rule_name \in RuleNames :
          AddCustomRule(category, rule_name, None)
    \/ \E category \in RuleCategories, rule_name \in RuleNames :
          RemoveCustomRule(category, rule_name)
    \/ \E category \in RuleCategories \cup {"FINANCIAL"} : GetRules(category)
    \/ \E level \in LevelArgs : GetCategoriesForSensitivity(level)
    \/ \E with_manager \in BOOLEAN : RuleManagerInit(with_manager)

SpecRules == Init /\ [][RulesNext]_vars

\* ------------------------------------------------------ external detectors
\* Presidio entity types a recognizer may report; "ORGANIZATION" is not in
\* the category_mapping table of _get_category.
PresidioEntityTypes == {"PERSON", "CREDIT_CARD", "ORGANIZATION"}

\* The keys of category_mapping (lines 219-260), cut to the modelled types.
CategoryMappingTypes == {"PERSON", "CREDIT_CARD"}

\* PresidioRedactionEngine._get_category (lines 209-264): the table, and
\* "PII" for a type that is not in it (line 263).
GetCategory(entity_type) ==
    CASE entity_type = "PERSON"      -> "PII"
      [] entity_type = "CREDIT_CARD" -> "FINANCIAL"
      [] OTHER                       -> "PII"

\* What a backend reports for one text: up to MaxReported results.
Reported(types) == SeqsUpTo([type : types, score : Scores], MaxReported)

\* The categories argument of _process_text: none, or a list.
CategoryArgs == {<<>>, <<"PII">>, <<"FINANCIAL">>}

\* RedactionEngine.detect_entities (lines 149-193): {} without a model or
\* when the model raises; otherwise the entities at or above the threshold
\* whose label is in ENTITY_TYPE_MAPPING, under the category of the label.
DetectEntities(ents, throws) ==
    /\ d_engine' = "spacy"
    /\ d_reported' = ents
    /\ d_categories' = <<>>
    /\ d_raised' = None
    /\ LET Kept(e) == /\ e.score >= NerConfidenceThreshold
                      /\ ENTITY_TYPE_MAPPING(e.type) # None
           kept == SelectSeq(ents, Kept)
       IN  d_candidates' =
               IF ~use_nlp \/ nlp = None \/ throws THEN <<>>
               ELSE [i \in 1..Len(kept) |->
                        [type |-> kept[i].type, score |-> kept[i].score,
                         category |-> ENTITY_TYPE_MAPPING(kept[i].type)]]
    /\ UNCHANGED <<engineVars, tracker, pc, callVars, last_arg, result, raised, dbVars,
                   sessionVars, presidioVars, threadVars, rmVars, againVars, markVars, docVars, resolveVars, analyzeVars, contextVars>>

\* PresidioRedactionEngine._process_text (lines 165-208): the analyzer
\* raises, or its results are filtered by the category _get_category gives
\* their type (lines 179-184, only with a non-empty categories argument);
\* with results left, line 189 raises NameError.
PresidioProcessText(results, cats, analyzer_raises) ==
    /\ d_engine' = "presidio"
    /\ d_reported' = results
    /\ d_categories' = cats
    /\ LET Kept(r) == InCategories(cats, GetCategory(r.type))
           kept == IF cats # <<>> THEN SelectSeq(results, Kept) ELSE results
       IN  IF analyzer_raises
           THEN /\ d_candidates' = <<>>
                /\ d_raised' = "Exception"
           ELSE /\ d_candidates' =
                       [i \in 1..Len(kept) |->
                           [type |-> kept[i].type, score |-> kept[i].score,
                            category |-> GetCategory(kept[i].type)]]
                /\ d_raised' = IF kept # <<>> THEN "NameError" ELSE None
    /\ UNCHANGED <<engineVars, tracker, pc, callVars, last_arg, result, raised, dbVars,
                   sessionVars, presidioVars, threadVars, rmVars, againVars, markVars, docVars, resolveVars, analyzeVars, contextVars>>

DetectNext ==
    \/ \E ents \in Reported(EntityLabels), throws \in BOOLEAN : DetectEntities(ents, throws)
    \/ \E results \in Reported(PresidioEntityTypes), cats \in CategoryArgs,
          analyzer_raises \in BOOLEAN :
          PresidioProcessText(results, cats, analyzer_raises)

SpecDetect == Init /\ [][DetectNext]_vars

\* ------------------------------------------- redact_text calls on one engine
\* After a redact_text call has returned, the engine is called again: the
\* locals of the finished call are gone, the engine's fields stay as they
\* are, among them semantic_engine with its entity_tracker, which __init__
\* created (lines 74-79, semantic_redaction.py line 222) and which
\* redact_text neither replaces nor clears.
RedactAgain ==
    /\ pc = "done"
    /\ redact_calls + 1 < MaxRedactCalls
    /\ redact_calls' = redact_calls + 1
    /\ pc' = "idle"
    /\ text' = <<>>
    /\ categories' = <<>>
    /\ use_pseudonyms' = FALSE
    /\ preserve_context' = FALSE
    /\ redaction_stats' = <<>>
    /\ all_detected_entities' = <<>>
    /\ detected_spans' = {}
    /\ rule_index' = 0
    /\ last_end' = 0
    /\ matches' = 0
    /\ rule_errors' = 0
    /\ nlp_outcome' = None
    /\ queue' = <<>>
    /\ redacted_text' = <<>>
    /\ span_to_replacement' = <<>>
    /\ last_arg' = None
    /\ result' = None
    /\ raised' = None
    /\ UNCHANGED <<engineVars, tracker, dbVars, sessionVars, presidioVars, threadVars,
                   rmVars, detectVars, markVars, docVars, resolveVars, analyzeVars, contextVars>>

\* Calls in a row on one engine, with the entities coming from the NLP model.
AgainNext ==
    \/ \E t \in Texts : Redact(t)
    \/ \E span \in SpansOf(TextLen), label \in EntityLabels, score \in Scores :
          NlpEntity(span, label, score)
    \/ NlpDone
    \/ NextRule
    \/ \E pseudonyms \in BOOLEAN, context \in BOOLEAN : RulesDone(pseudonyms, context)
    \/ ContextStep
    \/ SpanStep
    \/ Return
    \/ RedactAgain

SpecAgain == Init /\ [][AgainNext]_vars

\* ------------------------------ redact_text on text that holds markers
\* An already redacted text is a sequence of tokens: plain characters and
\* the five parts of each marker.  Len of a token is its number of
\* characters.
RECURSIVE Chars(_)
Chars(t) == IF t = <<>> THEN 0 ELSE Len(Head(t)) + Chars(Tail(t))

\* The rules of the marker catalogue, in dict order: "SSN_HYPHENATED"
\* (rule_manager.py line 30) and "API_KEY" (line 161).
MarkRulesFor(category) ==
    CASE category = "PII"         -> <<"SSN_HYPHENATED">>
      [] category = "CREDENTIALS" -> <<"API_KEY">>
      [] OTHER                    -> <<>>

\* The categories argument of the call.
MarkCategoryArgs == {<<"PII">>, <<"CREDENTIALS">>, <<"PII", "CREDENTIALS">>}

\* The markers a redaction with these categories writes without pseudonyms.
MarkersOf(cats) ==
    UNION {{Marker(cats[k], MarkRulesFor(cats[k])[i]) : i \in 1..Len(MarkRulesFor(cats[k]))}
              : k \in 1..Len(cats)}

\* The pieces side by side.
RECURSIVE Concat(_)
Concat(pieces) == IF pieces = <<>> THEN <<>> ELSE Head(pieces) \o Concat(Tail(pieces))

\* Texts of up to MaxPieces pieces, each a plain character or a marker.
MarkedTexts(cats) ==
    {Concat(p) : p \in SeqsUpTo({<<"a">>, <<" ">>} \cup MarkersOf(cats), MaxPieces)}

\* The maximal runs of word tokens of t, as spans.
WordRuns(t) ==
    {sp \in SpansOf(Len(t)) :
        /\ \A i \in (sp[1] + 1)..sp[2] : IsWordTok(t[i])
        /\ sp[1] = 0 \/ ~IsWordTok(t[sp[1]])
        /\ sp[2] = Len(t) \/ ~IsWordTok(t[sp[2] + 1])}

\* The spans re.finditer(pattern, t) yields.  API_KEY is
\* \b[A-Za-z0-9_-]{10,40}\b: a run of 10 to 40 word characters between
\* word boundaries.  SSN_HYPHENATED is \b\d{3}-\d{2}-\d{4}\b and needs
\* digits, which these texts do not have.
Finditer(rule, t) ==
    IF rule = "API_KEY"
    THEN {sp \in WordRuns(t) :
             /\ Chars(Slice(t, sp[1], sp[2])) >= ApiKeyMin
             /\ Chars(Slice(t, sp[1], sp[2])) <= ApiKeyMax}
    ELSE {}

\* A set of disjoint spans, left to right.
RECURSIVE InOrder(_)
InOrder(S) ==
    IF S = {} THEN <<>>
    ELSE LET first == CHOOSE sp \in S : \A other \in S : sp[1] <= other[1]
         IN  <<first>> \o InOrder(S \ {first})

\* The (category, rule_name) pairs in the order lines 355-361 visit them.
RECURSIVE MarkRuleList(_)
MarkRuleList(cats) ==
    IF cats = <<>> THEN <<>>
    ELSE [i \in 1..Len(MarkRulesFor(Head(cats))) |->
             [category |-> Head(cats), rule |-> MarkRulesFor(Head(cats))[i]]]
         \o MarkRuleList(Tail(cats))

\* The matches of the rule pass in the order it meets them.
RECURSIVE MatchesOf(_, _)
MatchesOf(rules, t) ==
    IF rules = <<>> THEN <<>>
    ELSE LET spans == InOrder(Finditer(Head(rules).rule, t))
         IN  [i \in 1..Len(spans) |->
                 [category |-> Head(rules).category, rule |-> Head(rules).rule,
                  span |-> spans[i]]]
             \o MatchesOf(Tail(rules), t)

\* list.sort(key=len, reverse=True) on entity texts made of tokens.
RECURSIVE SortByChars(_)
SortByChars(ents) ==
    IF ents = <<>> THEN <<>>
    ELSE LET longest == CHOOSE i \in 1..Len(ents) :
                 /\ \A j \in 1..Len(ents) : Chars(ents[j].text) <= Chars(ents[i].text)
                 /\ \A j \in 1..(i - 1) : Chars(ents[j].text) < Chars(ents[i].text)
         IN  <<ents[longest]>>
             \o SortByChars(SubSeq(ents, 1, longest - 1) \o SubSeq(ents, longest + 1, Len(ents)))

\* redact_text_with_context (lines 266-281) without pseudonyms: each entity
\* in turn replaced by its marker wherever it occurs in the text so far;
\* _replace_with_context uses \b only for entities of up to 3 characters.
RECURSIVE RedactWithMarkers(_, _)
RedactWithMarkers(t, ents) ==
    IF ents = <<>> THEN t
    ELSE LET e == Head(ents)
         IN  RedactWithMarkers(
                 ReplaceFrom(t, 0, e.text, Marker(e.category, e.type), Chars(e.text) <= 3),
                 Tail(ents))

\* redact_text(t, categories=cats, use_pseudonyms=False) up to line 353: no
\* NLP entities, the rule pass about to start.
MarkRedact(t, cats) ==
    /\ m_pc = "idle"
    /\ t \in MarkedTexts(cats)
    /\ m_pc' = "rules"
    /\ m_text' = t
    /\ m_categories' = cats
    /\ m_todo' = MatchesOf(MarkRuleList(cats), t)
    /\ m_detected' = {}
    /\ m_entities' = <<>>
    /\ m_result' = None
    /\ UNCHANGED <<engineVars, tracker, pc, callVars, last_arg, result, raised, dbVars,
                   sessionVars, presidioVars, threadVars, rmVars, detectVars, againVars, docVars, resolveVars, analyzeVars, contextVars>>

\* Lines 364-405 for the next match of the rule pass.
MarkRuleMatch ==
    /\ m_pc = "rules"
    /\ m_todo # <<>>
    /\ m_todo' = Tail(m_todo)
    /\ LET m == Head(m_todo)
           match_text == Slice(m_text, m.span[1], m.span[2])
       IN  IF IsSpace(match_text)
           THEN UNCHANGED <<m_detected, m_entities>>
           ELSE \E out \in ResolveRuleMatch(m_detected, m.span) :
                   /\ m_detected' = out.detected
                   /\ m_entities' =
                          IF out.accepted
                          THEN AppendEntity(m_entities, m.category,
                                            [text |-> match_text, type |-> m.rule])
                          ELSE m_entities
    /\ UNCHANGED <<m_pc, m_text, m_categories, m_result>>
    /\ UNCHANGED <<engineVars, tracker, pc, callVars, last_arg, result, raised, dbVars,
                   sessionVars, presidioVars, threadVars, rmVars, detectVars, againVars, docVars, resolveVars, analyzeVars, contextVars>>

\* Lines 411-414 and 478: after the last match the context path (the
\* default, preserve_context=True) substitutes and the text is returned.
MarkReturn ==
    /\ m_pc = "rules"
    /\ m_todo = <<>>
    /\ m_pc' = "done"
    /\ m_entities' = EnsureCategories(m_entities, m_categories, Len(m_categories))
    /\ m_result' = RedactWithMarkers(m_text, SortByChars(Flatten(m_entities')))
    /\ UNCHANGED <<m_text, m_categories, m_todo, m_detected>>
    /\ UNCHANGED <<engineVars, tracker, pc, callVars, last_arg, result, raised, dbVars,
                   sessionVars, presidioVars, threadVars, rmVars, detectVars, againVars, docVars, resolveVars, analyzeVars, contextVars>>

MarkedNext ==
    \/ \E cats \in MarkCategoryArgs : \E t \in MarkedTexts(cats) : MarkRedact(t, cats)
    \/ MarkRuleMatch
    \/ MarkReturn

SpecMarked == Init /\ [][MarkedNext]_vars

\* ------------------------------------- name generation on one EntityTracker
\* One call of EntityTracker._generate_person_name (lines 95-124) on the
\* engine's tracker: the name is appended to generated_names["PERSON"].
GeneratePersonNameCall ==
    /\ pc = "idle"
    /\ calls < MaxCalls
    /\ calls' = calls + 1
    /\ op' = "_generate_person_name"
    /\ \E name \in GeneratePersonName(tracker.generated_names) :
          /\ tracker' = [tracker EXCEPT !.generated_names.PERSON = Append(@, name)]
          /\ result' = name
    /\ raised' = None
    /\ UNCHANGED <<engineVars, pc, callVars, last_arg, first_returned, dbVars, presidioVars,
                   threadVars, rmVars, detectVars, againVars, markVars, docVars, resolveVars, analyzeVars, contextVars>>

\* One call of EntityTracker._generate_location_name (lines 126-167).
GenerateLocationNameCall ==
    /\ pc = "idle"
    /\ calls < MaxCalls
    /\ calls' = calls + 1
    /\ op' = "_generate_location_name"
    /\ \E location \in GenerateLocationName(tracker.generated_names) :
          /\ tracker' = [tracker EXCEPT !.generated_names.LOCATION = Append(@, location)]
          /\ result' = location
    /\ raised' = None
    /\ UNCHANGED <<engineVars, pc, callVars, last_arg, first_returned, dbVars, presidioVars,
                   threadVars, rmVars, detectVars, againVars, markVars, docVars, resolveVars, analyzeVars, contextVars>>

NamesNext ==
    \/ GeneratePersonNameCall
    \/ GenerateLocationNameCall

SpecNames == Init /\ [][NamesNext]_vars

\* ------------------------------------ DocumentProcessor.get_processor_for_file
\* A path is a sequence of tokens: the separator, the dot, and names that
\* hold neither.
PathTokens == {"/", ".", "file", "pdf", "PDF", "docx", "doc", "xlsx", "pptx",
               "html", "Html", "htm", "txt", "png", "JPG", "unknown"}
Paths == SeqsUpTo(PathTokens, MaxPathLen)

\* str.lower on a token.
Lower(tok) ==
    CASE tok = "PDF"  -> "pdf"
      [] tok = "Html" -> "html"
      [] tok = "JPG"  -> "jpg"
      [] OTHER        -> tok

\* str.rfind on tokens: the 0-based index of the last tok, -1 when absent.
RFind(path, tok) ==
    LET at == {i \in 1..Len(path) : path[i] = tok}
    IN  IF at = {} THEN -1 ELSE (CHOOSE i \in at : \A j \in at : j <= i) - 1

\* os.path.splitext(file_path)[1] (line 60): the text from the last dot of
\* the last path component on, unless only dots precede it there.
SplitExt(path) ==
    LET sepIndex == RFind(path, "/")
        dotIndex == RFind(path, ".")
    IN  IF dotIndex > sepIndex
           /\ \E k \in (sepIndex + 1)..(dotIndex - 1) : path[k + 1] # "."
        THEN Slice(path, dotIndex, Len(path))
        ELSE <<>>

\* Lines 60-78.
GetProcessorForFile(file_path) ==
    LET split == SplitExt(file_path)
        ext == [i \in 1..Len(split) |-> Lower(split[i])]
        Dot(names) == {<<".", n>> : n \in names}
    IN  IF ext = <<".", "pdf">> THEN "PDFProcessor"
        ELSE IF ext \in Dot({"docx", "doc"}) THEN "DocxProcessor"
        ELSE IF ext \in Dot({"xlsx", "xls"}) THEN "ExcelProcessor"
        ELSE IF ext = <<".", "pptx">> THEN "PowerPointProcessor"
        ELSE IF ext \in Dot({"txt", "md", "py", "java", "js", "html", "css", "json", "xml"})
             THEN "TextProcessor"
        ELSE IF ext \in Dot({"htm", "html"}) THEN "HTMLProcessor"
        ELSE IF ext \in Dot({"jpg", "jpeg", "png", "bmp", "tiff", "gif"}) THEN "ImageProcessor"
        ELSE "TextProcessor"

\* The call of the factory (a static method without state: one call).
GetProcessorForFileCall(file_path) ==
    /\ dp_result = None
    /\ dp_path' = file_path
    /\ dp_result' = GetProcessorForFile(file_path)
    /\ UNCHANGED <<engineVars, tracker, pc, callVars, last_arg, result, raised, dbVars,
                   sessionVars, presidioVars, threadVars, rmVars, detectVars, againVars, markVars, resolveVars, analyzeVars, contextVars>>

DocNext == \E file_path \in Paths : GetProcessorForFileCall(file_path)

SpecDoc == Init /\ [][DocNext]_vars

\* ------------------------------------ the rule pass, one match at a time
\* Lines 361-400 for one match of re.finditer: the overlap loop over
\* detected_spans, the removal of the marked spans and the acceptance. The
\* spans are those of a text of ResolveLen characters; successive matches
\* come from any rules, so they arrive in any order.
OfferMatch(match_span) ==
    /\ Len(rs_offered) < MaxOffers
    /\ \E o \in ResolveRuleMatch(rs_detected, match_span) :
          /\ rs_detected' = o.detected
          /\ rs_last' = [span |-> match_span, accepted |-> o.accepted, before |-> rs_detected]
    /\ rs_offered' = Append(rs_offered, match_span)
    /\ UNCHANGED <<engineVars, tracker, pc, callVars, last_arg, result, raised, dbVars,
                   sessionVars, presidioVars, threadVars, rmVars, detectVars, againVars,
                   markVars, docVars, analyzeVars, contextVars>>

ResolveNext == \E match_span \in SpansOf(ResolveLen) : OfferMatch(match_span)

SpecResolve == Init /\ [][ResolveNext]_vars

\* ------------------------------------------- RedactionEngine.analyze_text
\* rule_manager.get_all_categories(): the preset categories (a list made
\* from a set; results is keyed by category, so the order does not show).
AllCategories == <<"PII", "PHI", "CREDENTIALS", "FINANCIAL", "LOCATIONS">>

\* Sets of at most MaxMatches pairwise disjoint spans of t.
MatchSets(t) ==
    {S \in SUBSET SpansOf(Len(t)) :
        /\ Cardinality(S) <= MaxMatches
        /\ \A x \in S, y \in S : x = y \/ x[2] <= y[1] \/ y[2] <= x[1]}

\* The matched texts of a set of disjoint spans, from left to right: what
\* re.findall returns for a pattern without groups.
RECURSIVE FindAll(_, _)
FindAll(t, S) ==
    IF S = {} THEN <<>>
    ELSE LET first == CHOOSE x \in S : \A y \in S : x[1] <= y[1]
         IN  <<Slice(t, first[1], first[2])>> \o FindAll(t, S \ {first})

\* Lines 505-506.
AnalyzeText(t) ==
    /\ a_pc = "idle"
    /\ a_pc' = "rules"
    /\ a_text' = t
    /\ a_index' = 1
    /\ a_category_matches' = <<>>
    /\ a_results' = <<>>
    /\ a_raised' = None
    /\ UNCHANGED <<engineVars, tracker, pc, callVars, last_arg, result, raised, dbVars,
                   sessionVars, presidioVars, threadVars, rmVars, detectVars, againVars,
                   markVars, docVars, resolveVars, contextVars>>

\* Lines 508-518 for one rule: re.findall returns and its matches extend
\* category_matches; after the last rule of a category its matches, if any,
\* are entered in results.
AnalyzeRule(S) ==
    /\ a_pc = "rules"
    /\ a_index <= Len(RuleList(AllCategories))
    /\ LET rules == RuleList(AllCategories)
           category == rules[a_index].category
           category_matches == a_category_matches \o FindAll(a_text, S)
           last == a_index = Len(rules) \/ rules[a_index + 1].category # category
       IN  IF last
           THEN /\ a_category_matches' = <<>>
                /\ a_results' = IF category_matches # <<>>
                                THEN MapPut(a_results, category, category_matches)
                                ELSE a_results
           ELSE /\ a_category_matches' = category_matches
                /\ a_results' = a_results
    /\ a_index' = a_index + 1
    /\ UNCHANGED <<a_pc, a_text, a_raised>>
    /\ UNCHANGED <<engineVars, tracker, pc, callVars, last_arg, result, raised, dbVars,
                   sessionVars, presidioVars, threadVars, rmVars, detectVars, againVars,
                   markVars, docVars, resolveVars, contextVars>>

\* Line 513: re.findall raises (the pattern does not compile, or matching
\* fails); nothing in analyze_text catches it, so the call ends with it.
AnalyzeRuleRaises ==
    /\ a_pc = "rules"
    /\ a_index <= Len(RuleList(AllCategories))
    /\ a_pc' = "done"
    /\ a_raised' = "re.error"
    /\ UNCHANGED <<a_text, a_index, a_category_matches, a_results>>
    /\ UNCHANGED <<engineVars, tracker, pc, callVars, last_arg, result, raised, dbVars,
                   sessionVars, presidioVars, threadVars, rmVars, detectVars, againVars,
                   markVars, docVars, resolveVars, contextVars>>

\* Line 520: return results.
AnalyzeReturn ==
    /\ a_pc = "rules"
    /\ a_index > Len(RuleList(AllCategories))
    /\ a_pc' = "done"
    /\ UNCHANGED <<a_text, a_index, a_category_matches, a_results, a_raised>>
    /\ UNCHANGED <<engineVars, tracker, pc, callVars, last_arg, result, raised, dbVars,
                   sessionVars, presidioVars, threadVars, rmVars, detectVars, againVars,
                   markVars, docVars, resolveVars, contextVars>>

AnalyzeNext ==
    \/ \E t \in Texts : AnalyzeText(t)
    \/ \E S \in MatchSets(a_text) : AnalyzeRule(S)
    \/ AnalyzeRuleRaises
    \/ AnalyzeReturn

SpecAnalyze == Init /\ [][AnalyzeNext]_vars

\* ------------------------------------ replacements for FINANCIAL matches
\* What redact_text hands to get_replacement for matches of the FINANCIAL
\* rules (lines 424-427): the matched text and the rule name. A card number
\* is one token; it does not contain the text "CREDIT_CARD".
CardNumber == <<"4111-1111-1111-1111">>
FinancialCategories == {"FINANCIAL", "PII"}
FinancialTexts == {CardNumber, <<"CREDIT_CARD">>, <<"account">>, <<"a">>}
FinancialTypes == {"CREDIT_CARD_16", "BANK_ACCOUNT"}

FinancialNext ==
    \E category \in FinancialCategories, entity_text \in FinancialTexts,
       entity_type \in FinancialTypes :
       GetReplacementCall(category, entity_text, entity_type)

SpecFinancial == Init /\ [][FinancialNext]_vars

\* --------------------- redact_text_with_context called with given entities
\* Texts are sequences of tokens, each a word or a separator; Chars counts
\* characters.  The entities argument is {"PII": [...]}, given here as the
\* list of its (entity_text, entity_type) items with their category.
ContextAlphabet == {"a", " ", "Smith", "PERSON"}
ContextTexts == SeqsUpTo(ContextAlphabet, ContextTextLen)
ContextEntityPool ==
    {[text |-> <<"Smith", " ", "a">>, category |-> "PII", type |-> "PERSON"],
     [text |-> <<"Smith">>, category |-> "PII", type |-> "PERSON"],
     [text |-> <<"PERSON">>, category |-> "PII", type |-> "MY_RULE"],
     [text |-> <<"a">>, category |-> "PII", type |-> "MY_RULE"]}
ContextEntityLists == SeqsUpTo(ContextEntityPool, MaxContextEntities)

\* The offsets at which re.sub / str.replace substitute: those ReplaceFrom
\* replaces, from offset i on.
RECURSIVE MatchStarts(_, _, _, _)
MatchStarts(t, i, entity_text, bounded) ==
    LET n == Len(entity_text)
    IN  IF i >= Len(t) THEN {}
        ELSE IF /\ i + n <= Len(t)
                /\ Slice(t, i, i + n) = entity_text
                /\ (bounded => WordBoundary(t, i) /\ WordBoundary(t, i + n))
             THEN {i} \cup MatchStarts(t, i + n, entity_text, bounded)
             ELSE MatchStarts(t, i + 1, entity_text, bounded)

\* Which tokens of the text after a substitution come from a replacement:
\* those that did before, and the tokens put in at the offsets in starts
\* (n tokens replaced by m each time).
RECURSIVE InsertedAfter(_, _, _, _, _)
InsertedAfter(inserted, starts, i, n, m) ==
    IF i >= Len(inserted) THEN <<>>
    ELSE IF i \in starts
         THEN [k \in 1..m |-> TRUE] \o InsertedAfter(inserted, starts, i + n, n, m)
         ELSE <<inserted[i + 1]>> \o InsertedAfter(inserted, starts, i + 1, n, m)

\* Lines 256-264: redacted_text starts as the text; all_entities is sorted
\* by length of the entity text, longest first.
RedactTextWithContext(t, entities, pseudonyms) ==
    /\ c_pc = "idle"
    /\ c_pc' = "entities"
    /\ c_text' = t
    /\ c_use_pseudonyms' = pseudonyms
    /\ c_queue' = SortByChars(entities)
    /\ c_redacted' = t
    /\ c_inserted' = [i \in 1..Len(t) |-> FALSE]
    /\ UNCHANGED <<engineVars, tracker, pc, callVars, last_arg, result, raised, dbVars,
                   sessionVars, presidioVars, threadVars, rmVars, detectVars, againVars,
                   markVars, docVars, resolveVars, analyzeVars>>

\* Lines 267-279 for the next entity (none of the entity texts is empty):
\* its replacement from the tracker or its marker, then
\* _replace_with_context (lines 296-303) on the text so far (re.sub with \b
\* for entities of up to 3 characters, str.replace beyond).
ContextEntity ==
    /\ c_pc = "entities"
    /\ c_queue # <<>>
    /\ LET e == Head(c_queue)
           bounded == Chars(e.text) <= 3
       IN  \E o \in (IF c_use_pseudonyms
                     THEN GetReplacement(tracker, e.category, e.text, e.type)
                     ELSE {[replacement |-> Marker(e.category, e.type), tracker |-> tracker]}) :
              /\ tracker' = o.tracker
              /\ IF bounded /\ BadTemplate(o.replacement)
                 THEN /\ c_pc' = "raised"
                      /\ UNCHANGED <<c_queue, c_redacted, c_inserted>>
                 ELSE /\ c_redacted' = ReplaceFrom(c_redacted, 0, e.text, o.replacement, bounded)
                      /\ c_inserted' = InsertedAfter(c_inserted,
                                                     MatchStarts(c_redacted, 0, e.text, bounded),
                                                     0, Len(e.text), Len(o.replacement))
                      /\ c_queue' = Tail(c_queue)
                      /\ UNCHANGED c_pc
    /\ UNCHANGED <<c_text, c_use_pseudonyms>>
    /\ UNCHANGED <<engineVars, pc, callVars, last_arg, result, raised, dbVars,
                   sessionVars, presidioVars, threadVars, rmVars, detectVars, againVars,
                   markVars, docVars, resolveVars, analyzeVars>>

\* Line 281: return redacted_text.
ContextReturn ==
    /\ c_pc = "entities"
    /\ c_queue = <<>>
    /\ c_pc' = "done"
    /\ UNCHANGED <<c_text, c_use_pseudonyms, c_queue, c_redacted, c_inserted>>
    /\ UNCHANGED <<engineVars, tracker, pc, callVars, last_arg, result, raised, dbVars,
                   sessionVars, presidioVars, threadVars, rmVars, detectVars, againVars,
                   markVars, docVars, resolveVars, analyzeVars>>

ContextNext ==
    \/ \E t \in ContextTexts, entities \in ContextEntityLists, pseudonyms \in BOOLEAN :
          RedactTextWithContext(t, entities, pseudonyms)
    \/ ContextEntity
    \/ ContextReturn

SpecContext == Init /\ [][ContextNext]_vars

\* ----------------------------------------------------------------- claims
Disjoint(a, b) == a[2] <= b[1] \/ b[2] <= a[1]
PairwiseDisjoint(S) == \A a \in S, b \in S : a # b => Disjoint(a, b)

\* The entities listed for substitution and the spans text.find gives them.
Listed == Flatten(all_detected_entities)
Candidates == UNION {Occurrences(text, Listed[i].text, 0) : i \in 1..Len(Listed)}

\* sub occurs in s as a contiguous run.
Contains(s, sub) == \E i \in 0..(Len(s) - Len(sub)) : Slice(s, i, i + Len(sub)) = sub

RECURSIVE SumOver(_, _)
SumOver(f, S) ==
    IF S = {} THEN 0
    ELSE LET x == CHOOSE y \in S : TRUE IN f[x] + SumOver(f, S \ {x})

\* C1: at every point of a redaction the accepted span set of the rule pass
\* (detected_spans) and the resolved span set of the substitution pass
\* (span_to_replacement) are pairwise disjoint: for distinct a and b,
\* a.end <= b.start or b.end <= a.start.
ResolvedSpansDisjoint ==
    /\ PairwiseDisjoint(detected_spans)
    /\ PairwiseDisjoint(SpansIn(span_to_replacement))

\* A finished redaction in which the rule pass evicted a shorter span and
\* the substitution pass resolved overlapping occurrences into two spans.
ResolvedSpansDisjointWitness ==
    /\ pc = "done"
    /\ ~preserve_context
    /\ Len(Listed) > Cardinality(detected_spans)
    /\ detected_spans # {}
    /\ Cardinality(SpansIn(span_to_replacement)) >= 2
    /\ Cardinality(Candidates) > Cardinality(SpansIn(span_to_replacement))

\* The replacement the finished call used for a listed entity.
ReplacementOf(e) ==
    IF use_pseudonyms THEN tracker.entity_map[<<e.category, e.text>>]
    ELSE Marker(e.category, e.type)

\* C2: when a redaction has returned, a span c the rule pass retained that
\* overlaps a shorter candidate, and is strictly longer than every other
\* candidate overlapping it, has been replaced as one unit: the replacement
\* of an entity with c's text stands in the output.
LongerCandidateReplacedAsUnit ==
    pc = "done" =>
        \A c \in detected_spans :
            LET others == (Candidates \cup detected_spans) \ {c}
                rivals == {d \in others : Overlap2(c, d)}
            IN  (rivals # {} /\ \A d \in rivals : SpanLen(d) < SpanLen(c))
                => \E i \in 1..Len(Listed) :
                      /\ Listed[i].text = Slice(text, c[1], c[2])
                      /\ Contains(result.text, ReplacementOf(Listed[i]))

\* C5: when a redaction that resolves spans has returned, the statistics sum
\* to the number of resolved spans substituted into the output, and with
\* markers each category's count is the number of its markers substituted.
StatsCountSubstitutedSpans ==
    (pc = "done" /\ ~preserve_context) =>
        /\ SumOver(result.stats, DOMAIN result.stats) = Len(span_to_replacement)
        /\ ~use_pseudonyms =>
              \A c \in DOMAIN result.stats :
                  result.stats[c] =
                      Cardinality({i \in 1..Len(span_to_replacement) :
                                      span_to_replacement[i].replacement[2] = c})

\* C6: no failure inside redact_text leaves it as an exception.
NoFailurePropagates == pc # "raised"

\* Validation of a tier's output as the orchestrator description gives it:
\* rejected when empty for a non-empty input, or when changed without any
\* "[CATEGORY" marker token of a requested category.
HasMarkerToken(output, cats) ==
    \E i \in 1..(Len(output) - 1) : output[i] = "[" /\ InCategories(cats, output[i + 1])
PassesValidation(input, output, cats) ==
    /\ ~(output = <<>> /\ input # <<>>)
    /\ ~(output # input /\ ~HasMarkerToken(output, cats))

\* C8: a result redact_text returns comes from a tier whose output passed
\* validation; no output that fails validation is returned.
ReturnedResultPassedValidation ==
    pc = "done" => PassesValidation(text, result.text, categories)

\* C9: when the NLP model is absent, failed to load or raised during
\* detection, the redaction does not end in an exception.
DetectorFailureDoesNotCrash ==
    nlp_outcome \in {"skipped", "threw"} => pc # "raised"

\* C10: a redaction that has ended left a start record and then exactly one
\* terminal record (completion or failure) in the audit log.
AuditTrailComplete ==
    pc \in {"done", "raised"} =>
        /\ Len(audit_log) = 2
        /\ audit_log[1].action = "start"
        /\ audit_log[2].action \in {"completion", "failure"}

\* C3: in a tracker session every get_replacement call returns what the
\* first call with the same (category, text) returned, and the stored
\* mapping of a pair stays the value first returned for it.
ReplacementConsistent ==
    /\ op = "get_replacement" => result = first_returned[last_arg]
    /\ \A k \in DOMAIN first_returned :
          /\ k \in DOMAIN tracker.entity_map
          /\ tracker.entity_map[k] = first_returned[k]

\* A repeated call for a person name (drawn at random by the first call),
\* in a session that has stored a second pair as well.
ReplacementConsistentWitness ==
    /\ op = "get_replacement"
    /\ calls > Cardinality(DOMAIN first_returned)
    /\ Cardinality(DOMAIN first_returned) >= 2
    /\ tracker.generated_names.PERSON # <<>>
    /\ result = tracker.generated_names.PERSON[1]

\* C7: set_sensitivity with a level outside {low, medium, high} raises and
\* leaves the level as it was; with a level inside it the level becomes the
\* given one and nothing is raised.
SetSensitivityValidates ==
    [][op' = "set_sensitivity" =>
          IF last_arg' \in SensitivityLevels
          THEN sensitivity_level' = last_arg' /\ raised' = None
          ELSE sensitivity_level' = sensitivity_level /\ raised' = "ValueError"]_vars

\* set_sensitivity("extreme") rejected after the level had been set to high.
SetSensitivityValidatesWitness ==
    /\ op = "set_sensitivity"
    /\ last_arg = "extreme"
    /\ raised = "ValueError"
    /\ sensitivity_level = "high"

\* C4: when every _process_text call of a Presidio redaction failed, the
\* call returns exactly the original text with empty statistics.
AllFailedReturnsOriginal ==
    (p_pc = "done" /\ p_calls > 0 /\ p_failed = p_calls) =>
        p_result = [text |-> p_text, stats |-> <<>>]

\* The pieces one paragraph contributes to redacted_chunks.
PieceCount(paragraph) == Len(ChunkPlan(<<paragraph>>))

\* The per-piece results put back in order the way the text was cut: the
\* slices of one paragraph side by side, the paragraphs a blank line apart.
RECURSIVE Reassemble(_, _)
Reassemble(paragraphs, results) ==
    IF paragraphs = <<>> THEN <<>>
    ELSE LET k == PieceCount(Head(paragraphs))
             here == Concat(SubSeq(results, 1, k))
         IN  IF Len(paragraphs) = 1 THEN here
             ELSE here \o <<"\n", "\n">>
                  \o Reassemble(Tail(paragraphs), SubSeq(results, k + 1, Len(results)))

\* What a piece contributes: itself when it is blank or its processing
\* failed, otherwise the text _process_text returned for it.
ExpectedPiece(piece, outcome) ==
    IF outcome = "blank" \/ ProcessText(piece.text, outcome).raises THEN piece.text
    ELSE ProcessText(piece.text, outcome).text

\* C11: when a chunked Presidio redaction has returned, every piece stands
\* in the output at its position, unmodified if its processing failed and as
\* processed otherwise, and the output is the pieces concatenated in the
\* original order.
ChunkResultsConcatenatedInOrder ==
    (p_pc = "done" /\ Len(p_text) > MAX_TEXT_SIZE) =>
        LET paragraphs == SplitParagraphs(p_text, <<>>)
            plan == ChunkPlan(paragraphs)
        IN  /\ Len(redacted_chunks) = Len(plan)
            /\ \A i \in 1..Len(plan) :
                   redacted_chunks[i] = ExpectedPiece(plan[i], p_outcomes[i])
            /\ p_result.text = Reassemble(paragraphs, redacted_chunks)

\* C12: when two threads have called get_replacement on the shared tracker
\* with the same (category, text) and both have returned, both hold the same
\* replacement and it is the one the map stores for the pair.
ConcurrentCallersAgree ==
    \A t \in Threads, u \in Threads :
        (/\ th_pc[t] = "returned" /\ th_pc[u] = "returned"
         /\ th_arg[t].category = th_arg[u].category
         /\ th_arg[t].text = th_arg[u].text)
        => /\ th_result[t] = th_result[u]
           /\ tracker.entity_map[<<th_arg[t].category, th_arg[t].text>>] = th_result[t]

\* C13: an add_custom_rule call whose pattern does not compile raises, and
\* the in-memory custom rules and the custom_terms table are after the call
\* what they were before it.
InvalidPatternLeavesRulesUnchanged ==
    [][(/\ rm_calls' = rm_calls + 1
        /\ rm_call'.op = "add_custom_rule"
        /\ Compile(rm_call'.pattern) # "ok")
       => (/\ rm_raised' # None
           /\ terms' = terms
           /\ custom_terms' = custom_terms)]_vars

\* A manager that holds a custom rule has just rejected a pattern that does
\* not compile.
InvalidPatternLeavesRulesUnchangedWitness ==
    /\ rm_call.op = "add_custom_rule"
    /\ custom_terms_manager
    /\ Compile(rm_call.pattern) = "re.error"
    /\ rm_raised = "ValueError"
    /\ DOMAIN terms # {}
    /\ terms = custom_terms

\* C14: whatever was added and removed, every preset rule name is among the
\* rules get_rules_for_category returns for its category.
BuiltInRulesNeverRemoved ==
    /\ \A p \in DOMAIN PresetRules :
          p[2] \in DOMAIN GetRulesForCategory(custom_terms_manager, terms, p[1])
    /\ (rm_call.op = "get_rules_for_category") =>
          \A p \in DOMAIN PresetRules :
             p[1] = rm_call.category => p[2] \in DOMAIN rm_result

\* The name of a preset rule was removed, the category holds a custom rule,
\* and the rules of the category have been asked for.
BuiltInRulesNeverRemovedWitness ==
    /\ rm_call.op = "get_rules_for_category"
    /\ rm_call.category = "PII"
    /\ \E i \in 1..Len(rm_history) :
          /\ rm_history[i].op = "remove"
          /\ rm_history[i].category = "PII"
          /\ rm_history[i].name = "SSN_HYPHENATED"
    /\ <<"PII", "MY_RULE">> \in DOMAIN terms
    /\ "SSN_HYPHENATED" \in DOMAIN rm_result

\* The pattern of the last add of (category, name) in h[1..k] that no later
\* remove of (category, name) follows; None when there is none.
RECURSIVE LastWrite(_, _, _, _)
LastWrite(h, k, category, name) ==
    IF k = 0 THEN None
    ELSE IF h[k].category = category /\ h[k].name = name
         THEN (IF h[k].op = "add" THEN h[k].pattern ELSE None)
         ELSE LastWrite(h, k - 1, category, name)

\* C15: get_rules_for_category(category)[name] is the pattern of the last
\* add of (category, name) not followed by its removal, else the preset
\* pattern, else absent.  A rule manager without a CustomTermsManager has no
\* custom rules.
LastWriteWins ==
    \A category \in RuleCategories \cup {"FINANCIAL"},
       name \in RuleNames \cup {"CREDIT_CARD_16"} :
        LET rules == GetRulesForCategory(custom_terms_manager, terms, category)
            custom == IF custom_terms_manager
                      THEN LastWrite(rm_history, Len(rm_history), category, name)
                      ELSE None
            expected == IF custom # None THEN custom
                        ELSE IF <<category, name>> \in DOMAIN PresetRules
                             THEN PresetRules[<<category, name>>]
                             ELSE None
        IN  /\ IF expected = None THEN name \notin DOMAIN rules
               ELSE name \in DOMAIN rules /\ rules[name] = expected
            /\ (/\ rm_call.op = "get_rules_for_category"
                /\ rm_call.category = category) => rm_result = rules

\* The preset rule ("PII", "SSN_HYPHENATED") was overridden twice with
\* different patterns, and the rules returned hold the second pattern.
LastWriteWinsWitness ==
    /\ rm_call.op = "get_rules_for_category"
    /\ rm_call.category = "PII"
    /\ Len(rm_history) >= 2
    /\ \E i \in 1..Len(rm_history), j \in 1..Len(rm_history) :
          /\ i < j
          /\ rm_history[i].op = "add" /\ rm_history[j].op = "add"
          /\ rm_history[i].category = "PII" /\ rm_history[j].category = "PII"
          /\ rm_history[i].name = "SSN_HYPHENATED" /\ rm_history[j].name = "SSN_HYPHENATED"
          /\ rm_history[i].pattern # rm_history[j].pattern
          /\ rm_result["SSN_HYPHENATED"] = rm_history[j].pattern
          /\ \A k \in (j + 1)..Len(rm_history) : rm_history[k].name # "SSN_HYPHENATED"

\* C16: in every state of the rule manager each sensitivity level has at
\* least one category, and low's categories are among medium's, and
\* medium's among high's.
SensitivityLevelsNested ==
    /\ DOMAIN sensitivity_mapping = SensitivityLevels
    /\ \A level \in SensitivityLevels : Len(sensitivity_mapping[level]) > 0
    /\ SeqRange(sensitivity_mapping["low"]) \subseteq SeqRange(sensitivity_mapping["medium"])
    /\ SeqRange(sensitivity_mapping["medium"]) \subseteq SeqRange(sensitivity_mapping["high"])

\* After rules were added and removed, the categories of a level were asked
\* for and returned.
SensitivityLevelsNestedWitness ==
    /\ rm_call.op = "get_categories_for_sensitivity"
    /\ rm_call.category = "low"
    /\ rm_result = <<"PII", "CREDENTIALS">>
    /\ Len(rm_history) = MaxRuleOps

\* C17: every candidate an external detector yields has a confidence at or
\* above the threshold (the spaCy path; the Presidio engine configures
\* none) and a type that is in the detector's type-to-category table, and
\* carries the category of that table.
ExternalCandidatesFiltered ==
    \A i \in 1..Len(d_candidates) :
        LET c == d_candidates[i]
        IN  IF d_engine = "spacy"
            THEN /\ c.score >= NerConfidenceThreshold
                 /\ ENTITY_TYPE_MAPPING(c.type) # None
                 /\ c.category = ENTITY_TYPE_MAPPING(c.type)
            ELSE c.type \in CategoryMappingTypes

\* C18: every redact_text call on an engine starts with an empty replacement
\* map: nothing a finished call stored is there when the next call begins.
ReplacementMapFreshPerCall ==
    pc = "idle" => tracker.entity_map = <<>>

\* C19: a redaction without pseudonyms of a text made of markers of the same
\* categories and of plain characters no rule matches returns the text as it
\* is: every marker is where it was and reads as it did.
MarkersUnaltered ==
    m_pc = "done" => m_result = m_text

\* C20: when redact_text has returned, no entity text listed for redaction
\* occurs in the returned text.
NoDetectedTextLeaks ==
    pc = "done" =>
        \A i \in 1..Len(Listed) : ~Contains(result.text, Listed[i].text)

NoRepeat(s) == \A i \in 1..Len(s), j \in 1..Len(s) : i # j => s[i] # s[j]

\* C21: within one tracker session the generated person names are pairwise
\* distinct, and so are the generated locations, also once the closed pool
\* of name pairs is used up and a numeric suffix is appended.
GeneratedNamesDistinct ==
    /\ NoRepeat(tracker.generated_names.PERSON)
    /\ NoRepeat(tracker.generated_names.LOCATION)

\* The lower-cased extension of the path of the last factory call.
CalledExt == LET split == SplitExt(dp_path) IN [i \in 1..Len(split) |-> Lower(split[i])]

\* C22: get_processor_for_file maps the extension, whatever its case, to its
\* processor: .pdf to PDFProcessor, .docx and .doc to DocxProcessor, .html
\* and .htm to HTMLProcessor, image extensions to ImageProcessor, .txt and
\* every unknown extension to TextProcessor.
ProcessorByExtension ==
    dp_result # None =>
        dp_result =
            CASE CalledExt = <<".", "pdf">>                     -> "PDFProcessor"
              [] CalledExt \in {<<".", "docx">>, <<".", "doc">>} -> "DocxProcessor"
              [] CalledExt \in {<<".", "html">>, <<".", "htm">>} -> "HTMLProcessor"
              [] CalledExt \in {<<".", "png">>, <<".", "jpg">>}  -> "ImageProcessor"
              [] CalledExt \in {<<".", "xlsx">>}                 -> "ExcelProcessor"
              [] CalledExt \in {<<".", "pptx">>}                 -> "PowerPointProcessor"
              [] OTHER                                          -> "TextProcessor"

\* A step that handles one more match.
Offered == rs_offered' # rs_offered

\* C23: a new candidate that overlaps an accepted span of exactly its own
\* length is discarded, and that earlier span stays accepted.
EqualLengthKeepsEarlier ==
    [][\A a \in rs_detected :
          (/\ Offered
           /\ a # rs_last'.span
           /\ Overlap2(rs_last'.span, a)
           /\ SpanLen(rs_last'.span) = SpanLen(a))
          => (/\ ~rs_last'.accepted
              /\ rs_last'.span \notin rs_detected'
              /\ a \in rs_detected')]_vars

EqualLengthKeepsEarlierWitness ==
    /\ ~rs_last.accepted
    /\ \E a \in rs_last.before \cap rs_detected :
          /\ a # rs_last.span
          /\ Overlap2(rs_last.span, a)
          /\ SpanLen(rs_last.span) = SpanLen(a)

\* C24: a step that discards the new candidate leaves the accepted set as it
\* was; shorter accepted spans go only when the candidate is accepted.
DiscardLeavesAcceptedUnchanged ==
    [][(Offered /\ ~rs_last'.accepted) => rs_detected' = rs_detected]_vars

\* C25: a candidate that strictly overlaps no accepted span, touching ones
\* included, is accepted and displaces nothing.
TouchingSpansBothAccepted ==
    [][(Offered /\ \A a \in rs_detected : ~Overlap2(rs_last'.span, a))
          => (rs_last'.accepted /\ rs_detected' = rs_detected \cup {rs_last'.span})]_vars

\* C30: every candidate handled so far is accepted or overlaps (in the
\* rule pass's own, inclusive sense) an accepted span.
EveryCandidateCovered ==
    \A i \in 1..Len(rs_offered) :
        \/ rs_offered[i] \in rs_detected
        \/ \E d \in rs_detected : Overlap1(rs_offered[i], d)

\* C26: a rule that fails to compile or to match is skipped and the error
\* does not reach the caller of the detection pass: analyze_text ends
\* without raising.
RuleErrorNotPropagated == a_pc = "done" => a_raised = None

\* C27: with pseudonyms, a FINANCIAL match that has the shape of a card
\* number is replaced by the masked card placeholder, not by the generic
\* [FINANCIAL-REDACTED].
CardNumberGetsMaskedCard ==
    (op = "get_replacement" /\ last_arg = <<"FINANCIAL", CardNumber>>)
        => result = <<"XXXX-XXXX-XXXX-XXXX">>

\* C28: a chunked Presidio redaction in which no piece was altered (each
\* failed, was blank, or held nothing to redact) returns the input text
\* itself, a paragraph cut into fixed-size slices included.
ChunkedPathAddsNothing ==
    (/\ p_pc = "done"
     /\ Len(p_text) > MAX_TEXT_SIZE
     /\ \A i \in 1..Len(redacted_chunks) :
           redacted_chunks[i] = ChunkPlan(SplitParagraphs(p_text, <<>>))[i].text)
        => p_result.text = p_text

\* C29: in redact_text_with_context the substitution of an entity never
\* replaces text that an earlier replacement put into redacted_text.
InsertedReplacementsUnaltered ==
    [][(c_pc = "entities" /\ c_queue # <<>> /\ c_queue' = Tail(c_queue))
          => LET entity_text == Head(c_queue).text
             IN  \A s \in MatchStarts(c_redacted, 0, entity_text, Chars(entity_text) <= 3) :
                    \A k \in (s + 1)..(s + Len(entity_text)) : ~c_inserted[k]]_vars

====
